---------------------------- MODULE Spec2Model ----------------------------
(***************************************************************************)
(* The grinbox broker of wallet713 (src/src/broker/grinbox.rs): the        *)
(* subscribe loop with its reconnect/backoff cycle, stop(), post(), and    *)
(* the websocket handler (on_open, on_message) that runs inside connect(). *)
(*                                                                         *)
(* Threads: the subscribe thread (the loop; the ws callbacks run on it     *)
(* while it is inside connect()), and caller threads calling stop() and    *)
(* post().  The only state they share is `inner`, the Mutex<Option<Sender>>*)
(* Each action below is one critical section or one callback.              *)
(***************************************************************************)
EXTENDS Integers, Sequences, FiniteSets, TLC

\* ------------------------------------------------------------------ bounds
MaxRetries == 7     \* backoff cycles modelled within one outage
MaxFrames == 2      \* inbound frames handled on one connection
MaxWire == 2        \* outbound frames queued on one connection's sender

MaxParticipants == 2  \* largest num_participants of an inbound slate
MaxInputs == 1      \* largest number of inputs of an inbound slate
MaxIter == 3        \* iterations of the swap action loop that are followed
MaxOutage == 66     \* failed reconnects followed within one long outage
MaxPings == 8       \* pings followed on one connection
MaxConns == 3       \* connections whose keepalive is followed
MaxWrites == 3      \* writes of Foreign calls to the store that are followed

BackoffCapSecs == 32    \* std::cmp::min(32, ..)

\* the challenge nonces the relay may issue
Nonces == {1, 2}

\* ---------------------------------------------------------------- state
VARIABLES
    pc,                       \* position of the subscribe thread
    inner,                    \* GrinboxBroker.inner holds Some(sender)
    result,                   \* what the last connect() returned
    retries,                  \* ConnectionMetadata.retries
    connected_at_least_once,  \* ConnectionMetadata.connected_at_least_once
    challenge,                \* GrinboxClient.challenge (0 = None)
    wire,                     \* frames accepted by the current connection's sender
    ppc,                      \* position of a caller thread inside post()
    post_res,                 \* what the last post() returned
    handler_res,              \* what the last on_message returned
    frame,                    \* the inbound frame the last on_message handled
    act,                      \* the operation that made the last step
    cb,                       \* the controller callback the last step invoked
    stopped_at,               \* history: where the loop was at the first stop()
    n_on_open,                \* history: on_open reports (saturates at 2)
    n_on_close,               \* history: on_close reports (saturates at 2)
    close_reason,             \* history: reason of the last on_close
    drops,                    \* history: on_dropped reports since the last open
    sleeps,                   \* history: backoff sleeps since the last open
    n_chal,                   \* history: Challenge frames received on this connection
    n_frames                  \* history: frames handled on this connection

loopv == <<pc, result, retries, connected_at_least_once>>
connv == <<challenge, wire, n_chal, n_frames>>
postv == <<ppc, post_res>>
msgv == <<handler_res, frame>>
histv == <<stopped_at, n_on_open, n_on_close, close_reason, drops, sleeps>>
brokerv == <<loopv, inner, connv, postv, msgv, histv, act, cb>>

\* the dispatch controller (src/src/broker/types.rs), one on_slate at a time
VARIABLES
    c_pc,       \* position inside Controller::on_slate
    c_in,       \* the event: the VersionedSlate received, its sender, the proof
    c_slate,    \* the local `slate: Slate` of on_slate
    c_res,      \* what process_incoming_slate returned
    c_calls     \* the calls on_slate made into the wallet and the publisher

ctlv == <<c_pc, c_in, c_slate, c_res, c_calls>>

\* the swap multiplexer (src/src/wallet/swap.rs)
VARIABLES
    m_apis,     \* SwapApis.apis: the currencies with an attached implementation
    m_keychain, \* SwapApis.keychain is Some
    m_api_kc,   \* per implementation: its keychain is Some
    m_held,     \* the implementations that held the keychain during the last call
    m_last      \* the last multiplexed call and its result

muxv == <<m_apis, m_keychain, m_api_kc, m_held, m_last>>

\* swap messages (src/src/wallet/api/foreign.rs, src/src/internal/swap.rs),
\* one receive_swap_message at a time under the container lock
VARIABLES
    db,         \* the wallet backend's stored swap, Context, outputs, offers
    r_pc,       \* position inside Foreign::receive_swap_message
    r_msg,      \* the message being handled
    r_res,      \* what receive_swap_message returned
    r_db0,      \* the stored state when receive_swap_message was entered
    swap,       \* the `swap` loaded by receive_swap_message, mutated in place
    context,    \* the `context` loaded by receive_swap_message
    action,     \* update_swap: `action`
    u_first,    \* update_swap: the action required_action returned
    u_iter,     \* update_swap: iterations of the loop that continued
    u_eff,      \* update_swap: what it published, broadcast or committed
    u_why,      \* update_swap: how the loop was left
    u_ret,      \* update_swap: the returned value
    u_calls     \* update_swap: the calls of the last round of the loop

swapv == <<db, r_pc, r_msg, r_res, r_db0, swap, context, action,
           u_first, u_iter, u_eff, u_why, u_ret, u_calls>>

\* the wallet container behind the Foreign API (src/src/wallet/api/foreign.rs)
VARIABLES
    w_connected, \* backend.connected()
    w_seed,      \* backend.has_seed()
    w_open,      \* the backend is open (open_with_credentials without close)
    w_last       \* the last Foreign call: what it found, did and returned

walletv == <<w_connected, w_seed, w_open, w_last>>

\* the backoff arithmetic of the subscribe loop over a long outage
\* (src/src/broker/grinbox.rs), in the 64-bit width of the code
VARIABLES
    b_build,    \* how the crate was built: overflow checks on or off
    b_pc,       \* "loop" while the subscribe loop runs, "aborted" after a panic
    b_retries,  \* ConnectionMetadata.retries
    b_secs,     \* the last backoff sleep of this outage, in seconds
    b_prev      \* the sleep before that one

backoffv == <<b_build, b_pc, b_retries, b_secs, b_prev>>

\* the two mutexes of the broker (src/src/broker/grinbox.rs): who holds them
VARIABLES
    k_pc,       \* position of the subscribe thread
    k_inner,    \* GrinboxBroker.inner is Some
    k_owner,    \* who holds the lock of `inner`
    k_meta,     \* who holds the lock of connection_meta_data
    k_call,     \* position of a caller thread in post, is_running or stop
    k_served    \* caller operations finished during the present sleep

lockv == <<k_pc, k_inner, k_owner, k_meta, k_call, k_served>>

\* the keepalive of one relay connection (GrinboxClient as ws Handler)
VARIABLES
    t_open,     \* a connection is open
    t_conn,     \* connections opened so far
    t_pending,  \* keepalive timers pending on the connection
    t_delay,    \* delay in ms of the timer armed last, 0 when none is pending
    t_pings,    \* pings sent on the connection
    t_failed,   \* a handler of the connection returned an error
    t_last      \* the last handler call: event, token and result

keepv == <<t_open, t_conn, t_pending, t_delay, t_pings, t_failed, t_last>>

\* the container lock of the Foreign API, taken by two threads
VARIABLES
    g_owner,    \* the thread holding the container lock, or "none"
    g_pc,       \* each thread's position in its Foreign call
    g_op,       \* each thread's operation
    g_open,     \* the wallet backend is open
    g_kc,       \* the multiplexer holds a keychain
    g_store,    \* writes to the stored swap state so far
    g_mine      \* each thread's view: the state it found or left last

gatev == <<g_owner, g_pc, g_op, g_open, g_kc, g_store, g_mine>>

\* the four locks and the threads that take them
VARIABLES
    o_owner,    \* each lock's holder, or "none"
    o_held,     \* each thread's locks, in the order it took them
    o_todo,     \* each thread's steps still to do in its operation
    o_op,       \* each thread's operation
    o_conn      \* the subscribe thread's connection: "down", "made" or "open"

orderv == <<o_owner, o_held, o_todo, o_op, o_conn>>

extv == <<ctlv, muxv, swapv, walletv, backoffv, lockv, keepv, gatev, orderv>>
vars == <<brokerv, extv>>

\* -------------------------------------------------------------- helpers
Min(a, b) == IF a < b THEN a ELSE b

Sat2(n) == Min(n + 1, 2)

RECURSIVE Pow2(_)
\* 2u64.pow(r); the modelled exponents stay far below the 64-bit width
Pow2(r) == IF r = 0 THEN 1 ELSE 2 * Pow2(r - 1)

\* mutation: the cap is dropped
BackoffSecsNoCap(r) == Pow2(r)
\* let secs = std::cmp::min(32, 2u64.pow(guard.retries));
BackoffSecs(r) == Min(BackoffCapSecs, Pow2(r))

\* mutation: the retries = 0 test is dropped
ShouldReportDroppedEveryRetry(r, c) == c
\* if guard.retries == 0 && guard.connected_at_least_once { on_dropped() }
ShouldReportDropped(r, c) == r = 0 /\ c

\* mutation: every open is reported as the first
OpenCallbackAlwaysOpen(c) == "on_open"
\* on_open: reestablished if connected before, else opened
OpenCallback(c) == IF c THEN "on_reestablished" ELSE "on_open"

\* mutation: the result of connect is ignored
CloseReasonAlwaysNormal(res) == "Normal"
\* match result { Err(_) => Abnormal(..), _ => Normal }
CloseReasonOf(res) == IF res = "err" THEN "Abnormal" ELSE "Normal"

\* mutation: the broker always claims to be running
IsRunningAlways == TRUE
\* is_running(): guard.is_some()
is_running == inner

\* stop() was called during the connect/retry cycle
stop_called == stopped_at # "never"

\* the sender stored in `inner` belongs to a connection still inside connect()
SenderLive == pc \in {"connecting", "open"}

PublicKey == "address.public_key"
SecretKey == "secret_key"
\* sign_challenge(challenge, secret_key)
Sign(msg, key) == [signed |-> msg, by |-> key]

\* mutation: the previously stored challenge is signed
SubscribeRequestStale(nonce) ==
    [type |-> "Subscribe", address |-> PublicKey, signature |-> Sign(challenge, SecretKey)]
\* ProtocolRequest::Subscribe { address: public_key, signature }
SubscribeRequest(nonce) ==
    [type |-> "Subscribe", address |-> PublicKey, signature |-> Sign(nonce, SecretKey)]

PostSlateRequest == [type |-> "PostSlate"]

NoFrame == [type |-> "none"]
\* what the relay may deliver: text that is no ProtocolResponse, a Challenge,
\* a Slate (whose TxProof::from_response succeeds or fails), an Error, and
\* any other response variant (the `_ => {}` arm)
InFrames ==
    {[type |-> "garbage"], [type |-> "Error"], [type |-> "Other"]}
    \cup {[type |-> "Challenge", str |-> n] : n \in Nonces}
    \cup {[type |-> "Slate", check |-> c, payload |-> p] :
            c \in {"ok", "bad_signature", "undecryptable"}, p \in {"Tx", "Swap"}}

\* mutation: the result of from_response is ignored
SlateCallbackUnchecked(f) == IF f.payload = "Tx" THEN "on_slate" ELSE "on_swap_message"
\* from_response Err => return Ok(()); else dispatch on the payload
SlateCallback(f) ==
    IF f.check # "ok" THEN "none"
    ELSE IF f.payload = "Tx" THEN "on_slate" ELSE "on_swap_message"

\* ------------------------------------------------------------------ init
BrokerInit ==
    /\ pc = "start"
    /\ inner = FALSE
    /\ result = "none"
    /\ retries = 0
    /\ connected_at_least_once = FALSE
    /\ challenge = 0
    /\ wire = <<>>
    /\ ppc = "idle"
    /\ post_res = "none"
    /\ handler_res = "none"
    /\ frame = NoFrame
    /\ act = "new"
    /\ cb = "none"
    /\ stopped_at = "never"
    /\ n_on_open = 0
    /\ n_on_close = 0
    /\ close_reason = "none"
    /\ drops = 0
    /\ sleeps = <<>>
    /\ n_chal = 0
    /\ n_frames = 0

\* ------------------------------------------------- the subscribe thread
\* connect(url, factory) returns an error before the factory ran (the socket
\* could not be set up, the url did not parse): `inner` is not touched
ConnectEarlyFail ==
    /\ pc = "start"
    /\ pc' = "returned"
    /\ result' = "err"
    /\ act' = "ConnectEarlyFail"
    /\ UNCHANGED extv
    /\ cb' = "none"
    /\ UNCHANGED <<retries, connected_at_least_once, inner, connv, postv, msgv, histv>>

\* connect(url, factory) runs the factory: the sender is stored in `inner`
\* and a GrinboxClient with challenge: None is built; nothing is sent
ConnectFactory ==
    /\ pc = "start"
    /\ pc' = "connecting"
    /\ inner' = TRUE
    /\ challenge' = 0
    /\ wire' = <<>>
    /\ n_chal' = 0
    /\ n_frames' = 0
    /\ act' = "ConnectFactory"
    /\ UNCHANGED extv
    /\ cb' = "none"
    /\ UNCHANGED <<result, retries, connected_at_least_once, postv, msgv, histv>>

\* GrinboxClient::on_open
OnOpen ==
    /\ pc = "connecting"
    /\ pc' = "open"
    /\ cb' = OpenCallback(connected_at_least_once)
    /\ connected_at_least_once' = TRUE
    /\ retries' = 0
    /\ n_on_open' = IF cb' = "on_open" THEN Sat2(n_on_open) ELSE n_on_open
    /\ drops' = 0
    /\ sleeps' = <<>>
    /\ act' = "OnOpen"
    /\ UNCHANGED extv
    /\ UNCHANGED <<result, inner, connv, postv, msgv, stopped_at, n_on_close, close_reason>>

\* mutation: the handle is cleared when the connection ends
ConnCloseClearsHandle ==
    /\ pc \in {"connecting", "open"}
    /\ pc' = "returned"
    /\ \E r \in {"ok", "err"} : result' = r
    /\ inner' = FALSE
    /\ act' = "ConnClose"
    /\ UNCHANGED extv
    /\ cb' = "none"
    /\ UNCHANGED <<retries, connected_at_least_once, connv, postv, msgv, histv>>

\* the connection ends (refused, reset, closed by the relay or by stop()'s
\* close frame) and connect() returns
ConnClose ==
    /\ pc \in {"connecting", "open"}
    /\ pc' = "returned"
    /\ \E r \in {"ok", "err"} : result' = r
    /\ act' = "ConnClose"
    /\ UNCHANGED extv
    /\ cb' = "none"
    /\ UNCHANGED <<retries, connected_at_least_once, inner, connv, postv, msgv, histv>>

\* is_stopped: on_close, break, and the final *guard = None
Exit ==
    /\ pc = "returned"
    /\ ~inner
    /\ pc' = "done"
    /\ cb' = "on_close"
    /\ close_reason' = CloseReasonOf(result)
    /\ n_on_close' = Sat2(n_on_close)
    /\ inner' = FALSE
    /\ act' = "Exit"
    /\ UNCHANGED extv
    /\ UNCHANGED <<result, retries, connected_at_least_once, connv, postv, msgv,
                   stopped_at, n_on_open, drops, sleeps>>

\* not stopped: report the drop, compute the sleep and go to sleep
EnterBackoff ==
    /\ pc = "returned"
    /\ inner
    /\ retries < MaxRetries
    /\ pc' = "backoff"
    /\ IF ShouldReportDropped(retries, connected_at_least_once)
         THEN cb' = "on_dropped" /\ drops' = Sat2(drops)
         ELSE cb' = "none" /\ drops' = drops
    /\ sleeps' = Append(sleeps, BackoffSecs(retries))
    /\ act' = "EnterBackoff"
    /\ UNCHANGED extv
    /\ UNCHANGED <<result, retries, connected_at_least_once, inner, connv, postv, msgv,
                   stopped_at, n_on_open, n_on_close, close_reason>>

\* the sleep ends: guard.retries += 1, next iteration
Wake ==
    /\ pc = "backoff"
    /\ pc' = "start"
    /\ retries' = retries + 1
    /\ act' = "Wake"
    /\ UNCHANGED extv
    /\ cb' = "none"
    /\ UNCHANGED <<result, connected_at_least_once, inner, connv, postv, msgv, histv>>

\* ------------------------------------------------------ the ws handler
\* on_message: the text is no ProtocolResponse, an Error, or another variant
OnMessagePlain(f) ==
    /\ f.type \in {"garbage", "Error", "Other"}
    /\ handler_res' = "ok"
    /\ cb' = "none"
    /\ UNCHANGED <<pc, challenge, wire, n_chal>>

\* on_message, Challenge: signing fails, subscribe returns Err, mapped to a
\* Protocol error
OnChallengeSignFails(f) ==
    /\ f.type = "Challenge"
    /\ challenge' = f.str
    /\ n_chal' = n_chal + 1
    /\ handler_res' = "err"
    /\ cb' = "none"
    /\ UNCHANGED <<pc, wire>>

\* on_message, Challenge: the Subscribe request is sent
OnChallengeSubscribed(f) ==
    /\ f.type = "Challenge"
    /\ Len(wire) < MaxWire
    /\ challenge' = f.str
    /\ n_chal' = n_chal + 1
    /\ wire' = Append(wire, SubscribeRequest(f.str))
    /\ handler_res' = "ok"
    /\ cb' = "none"
    /\ UNCHANGED pc

\* on_message, Challenge: the sender rejects the request and
\* .expect("could not send subscribe request!") panics
OnChallengeSendPanics(f) ==
    /\ f.type = "Challenge"
    /\ challenge' = f.str
    /\ n_chal' = n_chal + 1
    /\ handler_res' = "panic"
    /\ pc' = "panicked"
    /\ cb' = "none"
    /\ UNCHANGED wire

\* on_message, Slate: from_response, then on_slate or on_swap_message
OnSlate(f) ==
    /\ f.type = "Slate"
    /\ handler_res' = "ok"
    /\ cb' = SlateCallback(f)
    /\ UNCHANGED <<pc, challenge, wire, n_chal>>

\* GrinboxClient::on_message
OnMessage ==
    /\ pc = "open"
    /\ n_frames < MaxFrames
    /\ \E f \in InFrames :
        /\ frame' = f
        /\ \/ OnMessagePlain(f)
           \/ OnChallengeSignFails(f)
           \/ OnChallengeSubscribed(f)
           \/ OnChallengeSendPanics(f)
           \/ OnSlate(f)
    /\ n_frames' = n_frames + 1
    /\ act' = "OnMessage"
    /\ UNCHANGED extv
    /\ UNCHANGED <<result, retries, connected_at_least_once, inner, postv, histv>>

\* ------------------------------------------------------ caller threads
\* GrinboxBroker::stop, one critical section
Stop ==
    /\ pc \notin {"done", "panicked"}
    /\ inner' = FALSE
    /\ stopped_at' = IF stopped_at = "never" THEN pc ELSE stopped_at
    /\ act' = "Stop"
    /\ UNCHANGED extv
    /\ cb' = "none"
    /\ UNCHANGED <<loopv, connv, postv, msgv, n_on_open, n_on_close, close_reason,
                   drops, sleeps>>

\* post: if !self.is_running() { return Err(ClosedListener) }
PostClosed ==
    /\ ppc = "idle"
    /\ ~is_running
    /\ post_res' = "ClosedListener"
    /\ UNCHANGED ppc

\* post: running; public_key, encryption, serialisation or signing fails
PostEncodeFails ==
    /\ ppc = "idle"
    /\ is_running
    /\ post_res' = "EncodeError"
    /\ UNCHANGED ppc

\* post: running; the PostSlate request is built
PostPrepared ==
    /\ ppc = "idle"
    /\ is_running
    /\ post_res' = "pending"
    /\ ppc' = "send"

\* post, from its start to the built request
PostCheck ==
    /\ \/ PostClosed
       \/ PostEncodeFails
       \/ PostPrepared
    /\ act' = "PostCheck"
    /\ UNCHANGED extv
    /\ cb' = "none"
    /\ UNCHANGED <<loopv, inner, connv, msgv, histv>>

\* sender.send(..) accepted
PostSent ==
    /\ inner
    /\ SenderLive
    /\ Len(wire) < MaxWire
    /\ wire' = Append(wire, PostSlateRequest)
    /\ post_res' = "Ok"

\* sender.send(..) rejected: the queue is full, or the event loop the sender
\* belongs to is gone (connect() has returned)
PostRejected ==
    /\ inner
    /\ post_res' = "GenericError"
    /\ UNCHANGED wire

\* no sender stored at the time of sending
PostNoSender ==
    /\ ~inner
    /\ post_res' = "GenericError"
    /\ UNCHANGED wire

\* post: if let Some(ref sender) = *self.inner.lock() { send } else { Err }
PostSend ==
    /\ ppc = "send"
    /\ ppc' = "idle"
    /\ \/ PostSent
       \/ PostRejected
       \/ PostNoSender
    /\ act' = "PostSend"
    /\ UNCHANGED extv
    /\ cb' = "none"
    /\ UNCHANGED <<loopv, inner, challenge, n_chal, n_frames, msgv, histv>>

\* ================================================= the dispatch controller
\* the other parts of the state, which on_slate does not touch
notctlv == <<brokerv, muxv, swapv, walletv, backoffv, lockv, keepv, gatev, orderv>>

Versions == {1, 2}
Peers == {"peerA", "peerB"}
NoSlate == [num_participants |-> 0, pd_len |-> 0, n_inputs |-> 0]
\* the slates a peer may send: num_participants, participant_data.len(),
\* tx.inputs().len()
Slates ==
    [num_participants : 1..MaxParticipants, pd_len : 0..MaxParticipants,
     n_inputs : 0..MaxInputs]
\* on_slate(from, slate: &VersionedSlate, tx_proof)
SlateEvents ==
    [version : Versions, slate : Slates, from : Peers, proof : {"none", "proof"}]

\* slate.version()
VersionOf(vs) == vs.version
\* let mut slate: Slate = slate.clone().into()
IntoSlate(vs) == vs.slate
\* mutation: the slate is sent back in the newest version
IntoVersionNewest(slate, version) == [version |-> 2, slate |-> slate]
\* VersionedSlate::into_version(slate, version)
IntoVersion(slate, version) == [version |-> version, slate |-> slate]

\* mutation: a fully signed slate is still taken for an unsigned one
RouteOffByOne(slate) ==
    IF slate.num_participants >= slate.pd_len
      THEN IF slate.n_inputs = 0 THEN "invoice" ELSE "receive"
      ELSE "finalize"
\* process_incoming_slate: which branch a slate takes
Route(slate) ==
    IF slate.num_participants > slate.pd_len
      THEN IF slate.n_inputs = 0 THEN "invoice" ELSE "receive"
      ELSE "finalize"

\* what tx::receive_tx returns: the slate with this wallet's participant data
Received(slate) == [slate EXCEPT !.pd_len = @ + 1]

\* mutation: a processing error is treated like Ok(false)
AfterProcessLenient(res) == IF res = "ok_true" THEN "returned" ELSE "republish"
\* .and_then(|is_finalized| ..): Err skips the closure, Ok(true) publishes nothing
AfterProcess(res) == IF res = "ok_false" THEN "republish" ELSE "returned"

CtlInit ==
    /\ c_pc = "idle"
    /\ c_in = [version |-> 1, slate |-> NoSlate, from |-> "peerA", proof |-> "none"]
    /\ c_slate = NoSlate
    /\ c_res = "none"
    /\ c_calls = <<>>

\* process_incoming_slate(address, slate, tx_proof); `wallet` is what the
\* wallet call answers ("ok" or "err") when one is made
process_incoming_slate(slate, e, wallet) ==
    IF Route(slate) = "invoice"
      THEN [res |-> "ok_false", slate |-> slate, calls |-> <<>>]
    ELSE IF Route(slate) = "receive"
      THEN [res   |-> IF wallet = "ok" THEN "ok_false" ELSE "err",
            slate |-> IF wallet = "ok" THEN Received(slate) ELSE slate,
            calls |-> <<[op |-> "receive_tx", address |-> e.from]>>]
      ELSE [res   |-> IF wallet = "ok" THEN "ok_true" ELSE "err",
            slate |-> slate,
            calls |-> <<[op |-> "finalize_tx", proof |-> e.proof]>>]

\* publisher.post(&slate, from); its result is only printed
PostCall(vs, to) == [op |-> "post", to |-> to, payload |-> vs]

\* SubscriptionHandler::on_slate for Controller, from entry to return
CtlOnSlate ==
    /\ \E e \in SlateEvents, wallet \in {"ok", "err"} :
          LET version == VersionOf(e)
              p == process_incoming_slate(IntoSlate(e), e, wallet)
          IN  /\ c_in' = e
              /\ c_res' = p.res
              /\ c_slate' = p.slate
              /\ c_calls' =
                    IF AfterProcess(p.res) = "republish"
                      THEN Append(p.calls,
                                  PostCall(IntoVersion(p.slate, version), e.from))
                      ELSE p.calls
    /\ c_pc' = "returned"
    /\ UNCHANGED notctlv

CtlNext == CtlOnSlate

\* ==================================================== the swap multiplexer
notmuxv == <<brokerv, ctlv, swapv, walletv, backoffv, lockv, keepv, gatev, orderv>>

Currencies == {"btc", "eth"}
\* the operations of SwapApi that SwapApis forwards
MuxOps ==
    {"context_key_count", "create_context", "create_swap_offer",
     "accept_swap_offer", "completed", "refunded", "cancelled",
     "required_action", "message", "message_sent", "receive_message",
     "publish_transaction", "publish_secondary_transaction"}
NoCall == [op |-> "none", currency |-> "none", registered |-> FALSE,
           keychain |-> FALSE, res |-> "none"]

\* mutation: every currency is taken to have an implementation
LookupAny(apis, currency) == TRUE
\* self.apis.get_mut(currency) is Some
Lookup(apis, currency) == currency \in apis

\* api.set_keychain(Some(keychain))
Install(api_kc, currency) == [api_kc EXCEPT ![currency] = TRUE]
\* mutation: the keychain is taken back only when the call succeeded
UninstallOnOk(api_kc, currency, fres) == [api_kc EXCEPT ![currency] = (fres = "err")]
\* api.set_keychain(None) after f, whatever f returned
Uninstall(api_kc, currency, fres) == [api_kc EXCEPT ![currency] = FALSE]

\* SwapApis::open_and_close(currency, f); fres is what f returns on the
\* implementation
open_and_close(apis, keychain, api_kc, currency, fres) ==
    IF ~keychain
      THEN [res |-> "MissingKeychain", held |-> {}, api_kc |-> api_kc]
    ELSE IF ~Lookup(apis, currency)
      THEN [res |-> "ApiNotFound", held |-> {}, api_kc |-> api_kc]
      ELSE LET during == Install(api_kc, currency)
           IN  [res    |-> fres,
                held   |-> {c \in Currencies : during[c]},
                api_kc |-> Uninstall(during, currency, fres)]

MuxInit ==
    /\ m_apis = {}
    /\ m_keychain = FALSE
    /\ m_api_kc = [c \in Currencies |-> FALSE]
    /\ m_held = {}
    /\ m_last = NoCall

\* SwapApis::attach(currency, api); the implementation is built without keychain
MuxAttach ==
    /\ \E c \in Currencies :
          /\ m_apis' = m_apis \cup {c}
          /\ m_api_kc' = [m_api_kc EXCEPT ![c] = FALSE]
    /\ UNCHANGED <<m_keychain, m_held, m_last, notmuxv>>

\* SwapApis::set_keychain(keychain): only the multiplexer's own field
MuxSetKeychain ==
    /\ \E k \in BOOLEAN : m_keychain' = k
    /\ UNCHANGED <<m_apis, m_api_kc, m_held, m_last, notmuxv>>

\* one forwarded operation on a swap (or arguments) of secondary currency c
MuxCall ==
    /\ \E op \in MuxOps \ {"accept_swap_offer"}, c \in Currencies,
          fres \in {"ok", "err"} :
          LET r == open_and_close(m_apis, m_keychain, m_api_kc, c, fres)
          IN  /\ m_api_kc' = r.api_kc
              /\ m_held' = r.held
              /\ m_last' = [op |-> op, currency |-> c,
                            registered |-> c \in m_apis,
                            keychain |-> m_keychain, res |-> r.res]
    /\ UNCHANGED <<m_apis, m_keychain, notmuxv>>

\* accept_swap_offer: message.unwrap_offer()? comes first, the currency is
\* the offer's
MuxAcceptOffer ==
    /\ \/ /\ m_last' = [NoCall EXCEPT !.op = "accept_swap_offer",
                                      !.keychain = m_keychain,
                                      !.res = "UnexpectedMessage"]
          /\ m_held' = {}
          /\ m_api_kc' = m_api_kc
       \/ \E c \in Currencies, fres \in {"ok", "err"} :
            LET r == open_and_close(m_apis, m_keychain, m_api_kc, c, fres)
            IN  /\ m_api_kc' = r.api_kc
                /\ m_held' = r.held
                /\ m_last' = [op |-> "accept_swap_offer", currency |-> c,
                              registered |-> c \in m_apis,
                              keychain |-> m_keychain, res |-> r.res]
    /\ UNCHANGED <<m_apis, m_keychain, notmuxv>>

MuxNext ==
    \/ MuxAttach
    \/ MuxSetKeychain
    \/ MuxCall
    \/ MuxAcceptOffer

\* ===================================================== swap message handling
notswapv == <<brokerv, ctlv, muxv, walletv, backoffv, lockv, keepv, gatev, orderv>>

Ids == {"A", "B"}
\* swap.address: absent, a grinbox address, an address of another channel,
\* a string parse_address rejects
Addresses == {"none", "grinbox", "keybase", "bad"}
NoSwap ==
    [seller |-> FALSE, address |-> "none", dirty |-> FALSE, stored |-> FALSE,
     done |-> FALSE]
\* the swaps in progress: `done` is set once completed() has succeeded on the swap
StoredSwaps ==
    [seller : BOOLEAN, address : Addresses, dirty : {FALSE}, stored : {TRUE},
     done : {FALSE}]
Messages == [id : Ids, kind : {"offer", "other"}]

WaitingActions ==
    {"None", "ReceiveMessage", "DepositSecondary", "Confirmations",
     "ConfirmationsSecondary", "ConfirmationRedeem", "ConfirmationRedeemSecondary"}
Actions ==
    WaitingActions \cup
    {"SendMessage", "PublishTx", "PublishTxSecondary", "Complete", "Cancel", "Refund"}
\* what a call into the swap engine answers: the next action, or an error
EngineResults == Actions \cup {"Err"}
IsWaiting(a) == a \in WaitingActions

\* the Context of a swap carries the role it was made for
ContextOf(s) == IF s.seller THEN "seller" ELSE "buyer"
\* the OutputData built from the buyer context's key and the redeem output
RedeemOutputOf(id) == [key_id |-> id, status |-> "Unconfirmed"]

\* mutation: the loop answers Action::None whenever it is left
LoopExitNone(a) == [res |-> "ok", ret |-> "None"]
\* `break`, then Ok(action)
LoopExit(a) == [res |-> "ok", ret |-> a]

\* unimplemented!()
Unimplemented(a) == [res |-> "panic", ret |-> "none"]

\* mutation: the buyer's output is not part of the batch
CompleteBatchNoOutput(s, id) == <<[op |-> "delete_swap_context", id |-> id]>>
\* the batch of Action::Complete: save_output for a buyer, delete_swap_context
CompleteBatch(s, id) ==
    (IF ~s.seller
       THEN <<[op |-> "save_output", output |-> RedeemOutputOf(id)]>>
       ELSE <<>>)
    \o <<[op |-> "delete_swap_context", id |-> id]>>

RECURSIVE ApplyBatch(_, _)
\* batch.commit(): every write of the batch becomes visible at once
ApplyBatch(d, b) ==
    IF b = <<>> THEN d
    ELSE LET w == Head(b)
             d1 == CASE w.op = "save_output" ->
                          [d EXCEPT !.outputs = @ \cup {w.output}]
                    [] w.op = "delete_swap_context" ->
                          [d EXCEPT !.ctx = "none"]
                    [] w.op = "store_swap" ->
                          [d EXCEPT !.swap = [w.swap EXCEPT !.dirty = FALSE,
                                                            !.stored = TRUE]]
                    [] w.op = "store_swap_mapping" ->
                          [d EXCEPT !.mapping = @ \cup {<<w.idx, w.id>>}]
                    [] w.op = "store_swap_offer" ->
                          [d EXCEPT !.offers = @ \cup {[id |-> w.id, idx |-> w.idx]}]
                    [] w.op = "next_swap_idx" ->
                          [d EXCEPT !.next_idx = @ + 1]
         IN  ApplyBatch(d1, Tail(b))

\* the states of the store: swap "A" is stored with its Context, or nothing is
InitialStores ==
    {[swap |-> s, ctx |-> ContextOf(s), outputs |-> {}, offers |-> {},
      mapping |-> {}, next_idx |-> 0] : s \in StoredSwaps}
    \cup {[swap |-> NoSwap, ctx |-> "none", outputs |-> {}, offers |-> {},
           mapping |-> {}, next_idx |-> 0]}

\* the locals before any call
IdleLocals ==
    /\ r_pc = "idle"
    /\ r_msg = [id |-> "A", kind |-> "other"]
    /\ r_res = "none"
    /\ r_db0 = db
    /\ swap = NoSwap
    /\ context = "none"
    /\ action = "None"
    /\ u_first = "none"
    /\ u_iter = 0
    /\ u_eff = {}
    /\ u_why = "none"
    /\ u_ret = "none"
    /\ u_calls = <<>>

\* a wallet without swaps
SwapInit ==
    /\ db = [swap |-> NoSwap, ctx |-> "none", outputs |-> {}, offers |-> {},
             mapping |-> {}, next_idx |-> 0]
    /\ IdleLocals

\* a wallet found in any of the stores
SwapInitStored ==
    /\ db \in InitialStores
    /\ IdleLocals

\* receive_swap_message returns r
Return(r) == r_pc' = "returned" /\ r_res' = r

\* update_swap returned: Ok lets receive_swap_message go on, Err is passed
\* up by `?`, a panic unwinds
AfterUpdate(pcnow, res) ==
    IF res = "ok" THEN r_pc' = (IF pcnow = "loop1" THEN "receive" ELSE "store")
                       /\ r_res' = r_res
    ELSE Return(res)

\* update_swap up to the loop: parse_address(a)?, required_action(..)?
EnterUpdate(s, pcnext, eng) ==
    /\ u_iter' = 0
    /\ u_calls' = <<>>
    /\ u_eff' = {}
    /\ IF s.address = "bad" \/ eng = "Err"
         THEN /\ u_first' = "none"
              /\ u_why' = "error"
              /\ u_ret' = "Err"
              /\ action' = action
              /\ Return("err")
         ELSE /\ u_first' = eng
              /\ u_why' = "running"
              /\ u_ret' = "none"
              /\ action' = eng
              /\ r_pc' = pcnext
              /\ r_res' = "none"

\* a new call starts with fresh locals
FreshLocals ==
    /\ swap' = NoSwap
    /\ context' = "none"
    /\ action' = "None"
    /\ u_first' = "none"
    /\ u_iter' = 0
    /\ u_eff' = {}
    /\ u_why' = "none"
    /\ u_ret' = "none"
    /\ u_calls' = <<>>

\* swap_open_and_close refuses: c.backend()?, has_seed, open_with_credentials()?
RsmLocked ==
    /\ r_pc \in {"idle", "returned"}
    /\ \E m \in Messages : r_msg' = m
    /\ r_db0' = db
    /\ Return("err")
    /\ FreshLocals
    /\ UNCHANGED <<db, notswapv>>

\* mutation: only stored swaps are looked up, not stored offers
SwapExistsNoOfferLookup(d, id) == id = "A" /\ d.swap.stored
\* w.get_swap(id)?.is_some() || w.get_swap_offer(id)?.is_some()
SwapExists(d, id) ==
    \/ id = "A" /\ d.swap.stored
    \/ \E o \in d.offers : o.id = id

\* batch.next_swap_idx(): the next index of the store's counter, which the
\* batch moves on
next_swap_idx(d) == d.next_idx

\* the batch of a received offer
OfferBatch(d, id) ==
    LET idx == next_swap_idx(d)
    IN  <<[op |-> "next_swap_idx"],
          [op |-> "store_swap_mapping", idx |-> idx, id |-> id],
          [op |-> "store_swap_offer", idx |-> idx, id |-> id]>>

\* SwapUpdate::Offer(_): refuse a known id, else store mapping and offer in
\* one batch
RsmOffer ==
    /\ r_pc \in {"idle", "returned"}
    /\ \E id \in Ids, sto \in {"ok", "err"} :
          /\ r_msg' = [id |-> id, kind |-> "offer"]
          /\ IF SwapExists(db, id) \/ sto = "err"
               THEN db' = db /\ Return("err")
               ELSE /\ db' = ApplyBatch(db, OfferBatch(db, id))
                    /\ Return("ok")
    /\ r_db0' = db
    /\ FreshLocals
    /\ UNCHANGED notswapv

\* any other update: get_swap_context(id)?, get_swap(id)?.ok_or(NotFound)?,
\* then the first update_swap up to its loop
RsmOther ==
    /\ r_pc \in {"idle", "returned"}
    /\ \E id \in Ids, eng \in EngineResults :
          /\ r_msg' = [id |-> id, kind |-> "other"]
          /\ IF id # "A" \/ db.ctx = "none" \/ ~db.swap.stored
               THEN Return("err") /\ FreshLocals
               ELSE /\ swap' = db.swap
                    /\ context' = db.ctx
                    /\ EnterUpdate(db.swap, "loop1", eng)
    /\ r_db0' = db
    /\ UNCHANGED <<db, notswapv>>

Looping == r_pc \in {"loop1", "loop2"}

\* the loop is left with result x (of LoopExit or Unimplemented) because of why
Leave(x, why) ==
    /\ u_why' = why
    /\ u_ret' = x.ret
    /\ AfterUpdate(r_pc, x.res)

\* the loop goes round with the next action a
Continue(a) ==
    /\ u_iter < MaxIter
    /\ u_iter' = u_iter + 1
    /\ action' = a
    /\ swap' = [swap EXCEPT !.dirty = TRUE, !.done = (@ \/ action = "Complete")]
    /\ UNCHANGED <<u_why, u_ret, r_pc, r_res>>

\* a waiting action: break
LoopWaiting ==
    /\ Looping /\ IsWaiting(action)
    /\ Leave(LoopExit(action), "waiting")
    /\ u_calls' = <<>>
    /\ UNCHANGED <<db, r_msg, r_db0, swap, context, action, u_first, u_iter, u_eff,
                   notswapv>>

Call(f, ok) == [f |-> f, ok |-> ok]

\* mutation: message_sent is called whatever the publish returned
SendCallsEager(outcome) ==
    CASE outcome = "message_failed" -> <<Call("message", FALSE)>>
      [] outcome \in {"no_address", "unsupported_channel"} -> <<Call("message", TRUE)>>
      [] outcome = "no_listener" ->
            <<Call("message", TRUE), Call("listeners.get", FALSE)>>
      [] outcome = "publish_failed" ->
            <<Call("message", TRUE), Call("listeners.get", TRUE),
              Call("publish_swap_message", FALSE), Call("message_sent", TRUE)>>
      [] OTHER ->
            <<Call("message", TRUE), Call("listeners.get", TRUE),
              Call("publish_swap_message", TRUE),
              Call("message_sent", outcome = "sent")>>
\* the calls of the SendMessage arm up to its break, panic or next action
SendCalls(outcome) ==
    CASE outcome = "message_failed" -> <<Call("message", FALSE)>>
      [] outcome \in {"no_address", "unsupported_channel"} -> <<Call("message", TRUE)>>
      [] outcome = "no_listener" ->
            <<Call("message", TRUE), Call("listeners.get", FALSE)>>
      [] outcome = "publish_failed" ->
            <<Call("message", TRUE), Call("listeners.get", TRUE),
              Call("publish_swap_message", FALSE)>>
      [] OTHER ->
            <<Call("message", TRUE), Call("listeners.get", TRUE),
              Call("publish_swap_message", TRUE),
              Call("message_sent", outcome = "sent")>>

\* Action::SendMessage
LoopSendMessage ==
    /\ Looping /\ action = "SendMessage"
    /\ \/ \* message() fails, or no address, or no grinbox listener, or the
          \* publish fails
          /\ \/ u_why' = "message_failed"
             \/ swap.address = "none" /\ u_why' = "no_address"
             \/ swap.address = "grinbox" /\ u_why' \in {"no_listener", "publish_failed"}
          /\ u_ret' = LoopExit(action).ret
          /\ u_calls' = SendCalls(u_why')
          /\ AfterUpdate(r_pc, LoopExit(action).res)
          /\ UNCHANGED <<swap, action, u_iter, u_eff>>
       \/ \* an address of another channel
          /\ swap.address = "keybase"
          /\ Leave(Unimplemented(action), "unsupported_channel")
          /\ u_calls' = SendCalls("unsupported_channel")
          /\ UNCHANGED <<swap, action, u_iter, u_eff>>
       \/ \* published; message_sent answers
          /\ swap.address = "grinbox"
          /\ u_eff' = u_eff \cup {"message"}
          /\ \E eng \in EngineResults :
                IF eng = "Err"
                  THEN /\ Leave(LoopExit(action), "message_sent_failed")
                       /\ u_calls' = SendCalls("message_sent_failed")
                       /\ UNCHANGED <<swap, action, u_iter>>
                  ELSE Continue(eng) /\ u_calls' = SendCalls("sent")
    /\ UNCHANGED <<db, r_msg, r_db0, context, u_first, notswapv>>

\* the one call of the PublishTx and PublishTxSecondary arms
PublishCalls(a, ok) ==
    <<Call(IF a = "PublishTx" THEN "publish_transaction"
                              ELSE "publish_secondary_transaction", ok)>>

\* Action::PublishTx and Action::PublishTxSecondary
LoopPublishTx ==
    /\ Looping /\ action \in {"PublishTx", "PublishTxSecondary"}
    /\ \E eng \in EngineResults :
          /\ u_calls' = PublishCalls(action, eng # "Err")
          /\ IF eng = "Err"
               THEN /\ Leave(LoopExit(action), "publish_tx_failed")
                    /\ UNCHANGED <<swap, action, u_iter, u_eff>>
               ELSE /\ Continue(eng)
                    /\ u_eff' = u_eff \cup {IF action = "PublishTx" THEN "tx"
                                                                  ELSE "tx_secondary"}
    /\ UNCHANGED <<db, r_msg, r_db0, context, u_first, notswapv>>

\* mutation: a missing redeem output does not stop a buyer's completion
BuyerOutputMissingCtxOnly(s, ctx, redeem) == ~s.seller /\ ctx # "buyer"
\* a buyer's Complete breaks: context.unwrap_buyer() is Err, or
\* swap.redeem_output() is not Ok(Some(_))
BuyerOutputMissing(s, ctx, redeem) ==
    ~s.seller /\ (ctx # "buyer" \/ redeem = "none")

\* the calls of the Complete arm up to its break, error or commit
CompleteCalls(s, ctx, eng, sto, redeem) ==
    IF eng = "Err" THEN <<Call("completed", FALSE)>>
    ELSE IF sto = "err" THEN <<Call("completed", TRUE), Call("batch", FALSE)>>
    ELSE <<Call("completed", TRUE), Call("batch", TRUE)>>
         \o (IF s.seller THEN <<>>
             ELSE IF ctx # "buyer" THEN <<Call("unwrap_buyer", FALSE)>>
             ELSE <<Call("unwrap_buyer", TRUE),
                    Call("redeem_output", redeem = "some")>>)
         \o (IF s.seller \/ (ctx = "buyer" /\ redeem = "some")
               THEN <<Call("commit", TRUE)>> ELSE <<>>)

\* Action::Complete
LoopComplete ==
    /\ Looping /\ action = "Complete"
    /\ \E eng \in EngineResults, redeem \in {"some", "none"}, sto \in {"ok", "err"} :
          /\ u_calls' = CompleteCalls(swap, context, eng, sto, redeem)
          /\ IF eng = "Err"
               THEN /\ Leave(LoopExit(action), "completed_failed")
                    /\ UNCHANGED <<db, swap, action, u_iter, u_eff>>
               ELSE IF sto = "err"
                 THEN \* backend()?, batch()?, save_output?, delete_swap_context?, commit()?
                      /\ u_why' = "error"
                      /\ u_ret' = "Err"
                      /\ Return("err")
                      /\ action' = eng
                      /\ swap' = [swap EXCEPT !.dirty = TRUE, !.done = TRUE]
                      /\ u_eff' = u_eff \cup {"batch"}
                      /\ UNCHANGED <<db, u_iter>>
               ELSE IF BuyerOutputMissing(swap, context, redeem)
                 THEN \* unwrap_buyer or redeem_output fails: break, batch dropped
                      /\ Leave(LoopExit(eng), "buyer_output_failed")
                      /\ action' = eng
                      /\ swap' = [swap EXCEPT !.dirty = TRUE, !.done = TRUE]
                      /\ u_eff' = u_eff \cup {"batch"}
                      /\ UNCHANGED <<db, u_iter>>
                 ELSE /\ Continue(eng)
                      /\ db' = ApplyBatch(db, CompleteBatch(swap, r_msg.id))
                      /\ u_eff' = u_eff \cup {"batch", "commit"}
    /\ UNCHANGED <<r_msg, r_db0, context, u_first, notswapv>>

\* Action::Cancel and Action::Refund
LoopUnimplemented ==
    /\ Looping /\ action \in {"Cancel", "Refund"}
    /\ Leave(Unimplemented(action), "unimplemented")
    /\ u_calls' = <<>>
    /\ UNCHANGED <<db, r_msg, r_db0, swap, context, action, u_first, u_iter, u_eff,
                   notswapv>>

\* between the two update_swap: receive_message(..)?, then the second
\* update_swap up to its loop
RsmReceive ==
    /\ r_pc = "receive"
    /\ \E rcv \in {"ok", "err"}, eng \in EngineResults :
          IF rcv = "err"
            THEN /\ Return("err")
                 /\ UNCHANGED <<swap, action, u_first, u_iter, u_eff, u_why, u_ret,
                                u_calls>>
            ELSE /\ swap' = [swap EXCEPT !.dirty = TRUE]
                 /\ EnterUpdate(swap, "loop2", eng)
    /\ UNCHANGED <<db, r_msg, r_db0, context, notswapv>>

\* after the second update_swap: batch.store_swap(&swap)?; batch.commit()?
RsmStore ==
    /\ r_pc = "store"
    /\ \E sto \in {"ok", "err"} :
          IF sto = "err"
            THEN db' = db /\ swap' = swap /\ Return("err")
            ELSE /\ db' = ApplyBatch(db, <<[op |-> "store_swap", swap |-> swap]>>)
                 /\ swap' = [swap EXCEPT !.dirty = FALSE]
                 /\ Return("ok")
    /\ UNCHANGED <<r_msg, r_db0, context, action, u_first, u_iter, u_eff, u_why,
                   u_ret, u_calls, notswapv>>

SwapNext ==
    \/ RsmLocked
    \/ RsmOffer
    \/ RsmOther
    \/ LoopWaiting
    \/ LoopSendMessage
    \/ LoopPublishTx
    \/ LoopComplete
    \/ LoopUnimplemented
    \/ RsmReceive
    \/ RsmStore

\* ================================================ the Foreign API wrappers
\* what a Foreign call leaves alone: everything but the wallet and the
\* multiplexer's own keychain
notwalletv ==
    <<brokerv, ctlv, swapv, backoffv, lockv, keepv, gatev, orderv,
      m_apis, m_api_kc, m_held, m_last>>

\* the calls that go through open_and_close / swap_open_and_close
ForeignOps == {"receive_tx", "receive_swap_message"}
\* swap_open_and_close is the wrapper of the swap calls
IsSwapOp(op) == op = "receive_swap_message"
NoForeignCall ==
    [op |-> "none", connected |-> FALSE, seed |-> FALSE, res |-> "none",
     opened |-> FALSE, installed |-> FALSE, body |-> FALSE, wrote |-> FALSE,
     closes |-> 0, fres |-> "none", backend |-> "none", close |-> "none"]

\* what the body f returned
BodyResult(body) == IF body \in {"ok", "ok_wrote"} THEN "ok" ELSE "err"

\* mutation: a failed close is the result of the call
ResultOfCloseFirst(fres, cl) == IF cl = "err" THEN "err" ELSE fres
\* `let _ = w.unwrap().close();` ... `res`
ResultOf(fres, cl) == fres

\* mutation: a wallet without seed is opened all the same
PrecheckNoSeedTest(connected, seed) == IF ~connected THEN "NoBackend" ELSE "ok"
\* c.backend()? then `if !w.has_seed()? { return Err(NoSeed) }`
Precheck(connected, seed) ==
    IF ~connected THEN "NoBackend"
    ELSE IF ~seed THEN "NoSeed"
    ELSE "ok"

WalletInit ==
    /\ w_connected = FALSE
    /\ w_seed = FALSE
    /\ w_open = FALSE
    /\ w_last = NoForeignCall

\* the backend is connected or disconnected, a seed is set or cleared
\* (outside the Foreign API)
WalletEnv ==
    /\ \E c \in BOOLEAN, sd \in BOOLEAN :
          /\ w_connected' = c
          /\ w_seed' = sd
          /\ w_open' = (w_open /\ c)
    /\ UNCHANGED <<w_last, m_keychain, notwalletv>>

\* one call of open_and_close(f) or swap_open_and_close(f), from taking the
\* container lock to returning; io is what open_with_credentials answers,
\* body what f does, bk what c.backend() answers after the body, cl what
\* close answers
ForeignCall ==
    /\ \E op \in ForeignOps, io \in {"ok", "err"},
          body \in {"ok", "ok_wrote", "err", "err_wrote", "panic"},
          bk \in {"ok", "err"}, cl \in {"ok", "err"} :
          LET pre == Precheck(w_connected, w_seed)
              call == [NoForeignCall EXCEPT !.op = op, !.connected = w_connected,
                                            !.seed = w_seed]
          IN  IF pre # "ok"
                THEN /\ w_last' = [call EXCEPT !.res = pre]
                     /\ UNCHANGED <<w_open, m_keychain>>
              ELSE IF io = "err"
                THEN /\ w_last' = [call EXCEPT !.res = "err"]
                     /\ UNCHANGED <<w_open, m_keychain>>
              ELSE IF body = "panic"
                THEN \* f unwinds: neither close nor set_keychain(None) runs
                     /\ IsSwapOp(op)
                     /\ w_last' = [call EXCEPT !.res = "panic", !.opened = TRUE,
                                               !.installed = TRUE, !.body = TRUE]
                     /\ w_open' = TRUE
                     /\ m_keychain' = TRUE
                ELSE \* `if w.is_ok() { let _ = w.unwrap().close(); }`
                     /\ w_last' = [call EXCEPT
                            !.res = ResultOf(BodyResult(body),
                                             IF bk = "ok" THEN cl ELSE "none"),
                            !.opened = TRUE,
                            !.installed = IsSwapOp(op),
                            !.body = TRUE,
                            !.wrote = body \in {"ok_wrote", "err_wrote"},
                            !.closes = IF bk = "ok" THEN 1 ELSE 0,
                            !.fres = BodyResult(body),
                            !.backend = bk,
                            !.close = IF bk = "ok" THEN cl ELSE "none"]
                     /\ w_open' = ~(bk = "ok" /\ cl = "ok")
                     /\ m_keychain' = IF IsSwapOp(op) THEN FALSE ELSE m_keychain
    /\ UNCHANGED <<w_connected, w_seed, notwalletv>>

WalletNext ==
    \/ WalletEnv
    \/ ForeignCall

\* ============================================ backoff in 64-bit arithmetic
notbackoffv == <<brokerv, ctlv, muxv, swapv, walletv, lockv, keepv, gatev, orderv>>

\* a u64 as four 16-bit limbs, lowest first.
\* 2u64.pow(r): the product has its one bit at position r; from r = 64 on
\* the bit is shifted out of the 64, which leaves 0 and is an overflow of
\* the multiplication
U64Pow2(r) ==
    [val |-> [i \in 1..4 |->
                 IF r < 64 /\ i = (r \div 16) + 1 THEN 2 ^ (r % 16) ELSE 0],
     overflow |-> r >= 64]

\* std::cmp::min(32, v) for a u64 v
U64MinCap(v) ==
    IF v[2] = 0 /\ v[3] = 0 /\ v[4] = 0 /\ v[1] < BackoffCapSecs
      THEN v[1] ELSE BackoffCapSecs

\* let secs = std::cmp::min(32, 2u64.pow(guard.retries)): with overflow
\* checks the overflowing pow panics, without them it wraps
SleepSecs(r, build) ==
    LET p == U64Pow2(r)
    IN  [panic |-> p.overflow /\ build = "debug", secs |-> U64MinCap(p.val)]

BackoffInit ==
    /\ b_build = "release"
    /\ b_pc = "loop"
    /\ b_retries = 0
    /\ b_secs = 0
    /\ b_prev = 0

\* either build of the crate
BackoffInitAnyBuild ==
    /\ b_build \in {"debug", "release"}
    /\ b_pc = "loop"
    /\ b_retries = 0
    /\ b_secs = 0
    /\ b_prev = 0

\* one more failed connect of the outage: secs is computed, slept, retries += 1
BackoffSleep ==
    /\ b_pc = "loop"
    /\ b_retries < MaxOutage
    /\ LET s == SleepSecs(b_retries, b_build)
       IN  IF s.panic
             THEN b_pc' = "aborted" /\ UNCHANGED <<b_retries, b_secs, b_prev>>
             ELSE /\ b_secs' = s.secs
                  /\ b_prev' = b_secs
                  /\ b_retries' = b_retries + 1
                  /\ b_pc' = b_pc
    /\ UNCHANGED <<b_build, notbackoffv>>

\* on_open: guard.retries = 0, the outage is over
BackoffOnOpen ==
    /\ b_pc = "loop"
    /\ b_retries > 0
    /\ b_retries' = 0
    /\ b_secs' = 0
    /\ b_prev' = 0
    /\ UNCHANGED <<b_build, b_pc, notbackoffv>>

BackoffNext ==
    \/ BackoffSleep
    \/ BackoffOnOpen

\* ================================================== the broker's mutexes
notlockv == <<brokerv, ctlv, muxv, swapv, walletv, backoffv, keepv, gatev, orderv>>

\* mutation: the guard of the is_stopped test is kept until the loop body ends
AfterIsStoppedHeld == "loop"
\* let is_stopped = cloned_inner.lock().is_none(): the guard is a temporary,
\* dropped at the end of the statement
AfterIsStopped == "none"

LockInit ==
    /\ k_pc = "connect"
    /\ k_inner = FALSE
    /\ k_owner = "none"
    /\ k_meta = "none"
    /\ k_call = "idle"
    /\ k_served = 0

\* connect(): the factory takes the lock of `inner`
LoopFactoryLock ==
    /\ k_pc = "connect" /\ k_owner = "none"
    /\ k_owner' = "loop"
    /\ k_pc' = "factory_locked"
    /\ UNCHANGED <<k_inner, k_meta, k_call, k_served, notlockv>>

\* the factory stores the sender and its block ends
LoopFactoryStore ==
    /\ k_pc = "factory_locked"
    /\ k_inner' = TRUE
    /\ k_owner' = "none"
    /\ k_pc' = "connected"
    /\ UNCHANGED <<k_meta, k_call, k_served, notlockv>>

\* connect() returns: after a connection, or before the factory ran
LoopConnectReturns ==
    /\ k_pc \in {"connect", "connected"}
    /\ k_pc' = "after_connect"
    /\ UNCHANGED <<k_inner, k_owner, k_meta, k_call, k_served, notlockv>>

\* cloned_inner.lock() of the is_stopped test
LoopCheckLock ==
    /\ k_pc = "after_connect" /\ k_owner = "none"
    /\ k_owner' = "loop"
    /\ k_pc' = "check_locked"
    /\ UNCHANGED <<k_inner, k_meta, k_call, k_served, notlockv>>

\* .is_none(), end of the statement; stopped: on_close and break, else the
\* lock of connection_meta_data is taken, secs computed and the sleep begun
LoopCheck ==
    /\ k_pc = "check_locked"
    /\ k_owner' = AfterIsStopped
    /\ IF ~k_inner
         THEN k_pc' = "exit" /\ UNCHANGED <<k_meta, k_served>>
         ELSE k_pc' = "sleeping" /\ k_meta' = "loop" /\ k_served' = 0
    /\ UNCHANGED <<k_inner, k_call, notlockv>>

\* the sleep ends: retries += 1, the guard of connection_meta_data is dropped
LoopWake ==
    /\ k_pc = "sleeping"
    /\ k_meta' = "none"
    /\ k_pc' = "connect"
    /\ UNCHANGED <<k_inner, k_owner, k_call, k_served, notlockv>>

\* after the loop: let mut guard = cloned_inner.lock()
LoopFinalLock ==
    /\ k_pc = "exit" /\ k_owner = "none"
    /\ k_owner' = "loop"
    /\ k_pc' = "final_locked"
    /\ UNCHANGED <<k_inner, k_meta, k_call, k_served, notlockv>>

\* *guard = None; Ok(())
LoopFinalClear ==
    /\ k_pc = "final_locked"
    /\ k_inner' = FALSE
    /\ k_owner' = "none"
    /\ k_pc' = "done"
    /\ UNCHANGED <<k_meta, k_call, k_served, notlockv>>

\* a caller thread takes the lock of `inner`: in is_running (also the first
\* step of post), in the send of post, in stop
CallerLock ==
    /\ k_owner = "none"
    /\ \/ k_call = "idle" /\ k_call' \in {"post_check", "is_running", "stop"}
       \/ k_call = "post_prepared" /\ k_call' = "post_send"
    /\ k_owner' = "caller"
    /\ UNCHANGED <<k_pc, k_inner, k_meta, k_served, notlockv>>

\* the caller's critical section ends: guard.is_some() read, one frame sent
\* (or None found), or the sender closed and the handle cleared
CallerUnlock ==
    /\ k_owner = "caller"
    /\ k_call \in {"post_check", "is_running", "post_send", "stop"}
    /\ k_owner' = "none"
    /\ k_inner' = (k_inner /\ k_call # "stop")
    /\ k_call' = IF k_call = "post_check" /\ k_inner THEN "post_prepared" ELSE "idle"
    /\ k_served' = IF k_pc = "sleeping" /\ k_call' = "idle" THEN Sat2(k_served)
                   ELSE k_served
    /\ UNCHANGED <<k_pc, k_meta, notlockv>>

LockNext ==
    \/ LoopFactoryLock
    \/ LoopFactoryStore
    \/ LoopConnectReturns
    \/ LoopCheckLock
    \/ LoopCheck
    \/ LoopWake
    \/ LoopFinalLock
    \/ LoopFinalClear
    \/ CallerLock
    \/ CallerUnlock

\* ================================================== keepalive
notkeepv == <<brokerv, ctlv, muxv, swapv, walletv, backoffv, lockv, gatev, orderv>>

KEEPALIVE_TOKEN == 1
KEEPALIVE_INTERVAL_MS == 30000

\* the tokens a timeout event can carry: the keepalive's and another one
Tokens == {KEEPALIVE_TOKEN, KEEPALIVE_TOKEN + 1}

TransportResults == {"ok", "err"}

NoHandlerCall == [ev |-> "none", token |-> 0, ping |-> "none", res |-> "none"]

\* mutation: every timeout is taken for the keepalive
IsKeepaliveAny(token) == TRUE
\* match event { KEEPALIVE_TOKEN => ..., _ => Err(..) }
IsKeepalive(token) == token = KEEPALIVE_TOKEN

KeepInit ==
    /\ t_open = FALSE
    /\ t_conn = 0
    /\ t_pending = 0
    /\ t_delay = 0
    /\ t_pings = 0
    /\ t_failed = FALSE
    /\ t_last = NoHandlerCall

\* on_open of a new connection: guard.retries = 0, then
\* self.sender.timeout(KEEPALIVE_INTERVAL_MS, KEEPALIVE_TOKEN)?
KeepOnOpen ==
    /\ ~t_open /\ t_conn < MaxConns
    /\ \E arm \in TransportResults :
        /\ t_open' = TRUE
        /\ t_conn' = t_conn + 1
        /\ t_pings' = 0
        /\ t_pending' = IF arm = "ok" THEN t_pending + 1 ELSE t_pending
        /\ t_delay' = IF arm = "ok" THEN KEEPALIVE_INTERVAL_MS ELSE t_delay
        /\ t_failed' = (arm = "err")
        /\ t_last' = [ev |-> "open", token |-> 0, ping |-> "none", res |-> arm]
    /\ UNCHANGED notkeepv

\* on_timeout(event): the keepalive token comes from a pending timer, which
\* the firing uses up; ping(vec![])?, then timeout(..) as the result
KeepOnTimeout ==
    /\ t_open /\ ~t_failed /\ t_pings < MaxPings
    /\ \E token \in Tokens, ping \in TransportResults, arm \in TransportResults :
        /\ token = KEEPALIVE_TOKEN => t_pending > 0
        /\ LET left == IF token = KEEPALIVE_TOKEN THEN t_pending - 1 ELSE t_pending
               armed == IsKeepalive(token) /\ ping = "ok" /\ arm = "ok"
           IN  /\ t_pings' = IF IsKeepalive(token) /\ ping = "ok"
                             THEN t_pings + 1 ELSE t_pings
               /\ t_pending' = IF armed THEN left + 1 ELSE left
               /\ t_delay' = IF armed THEN KEEPALIVE_INTERVAL_MS
                             ELSE IF left = 0 THEN 0 ELSE t_delay
               /\ t_failed' = ~armed
               /\ t_last' = [ev |-> "timeout", token |-> token,
                             ping |-> IF IsKeepalive(token) THEN ping ELSE "none",
                             res |-> IF armed THEN "ok" ELSE "err"]
    /\ UNCHANGED <<t_open, t_conn, notkeepv>>

\* connect() returns: the connection, its handler and its timers are gone
KeepOnClose ==
    /\ t_open
    /\ t_open' = FALSE
    /\ t_pending' = 0
    /\ t_delay' = 0
    /\ t_failed' = FALSE
    /\ t_last' = [ev |-> "close", token |-> 0, ping |-> "none", res |-> "ok"]
    /\ UNCHANGED <<t_conn, t_pings, notkeepv>>

KeepNext ==
    \/ KeepOnOpen
    \/ KeepOnTimeout
    \/ KeepOnClose

\* ================================================== the container lock
notgatev == <<brokerv, ctlv, muxv, swapv, walletv, backoffv, lockv, keepv, orderv>>

\* the connection thread (frames of the relay) and a caller thread
Threads == {"conn", "caller"}

\* mutation: the guard of the container is dropped when the body has run
GuardDroppedAfterBody == "body"
\* let mut c = self.container.lock(): the guard lives to the end of the
\* function
GuardDroppedAfter == "return"

GateState == <<g_open, g_kc, g_store>>

GateInit ==
    /\ g_owner = "none"
    /\ g_pc = [t \in Threads |-> "idle"]
    /\ g_op = [t \in Threads |-> "none"]
    /\ g_open = FALSE
    /\ g_kc = FALSE
    /\ g_store = 0
    /\ g_mine = [t \in Threads |-> <<FALSE, FALSE, 0>>]

\* a thread calls receive_tx or receive_swap_message and asks for the lock
GateCall(t) ==
    /\ g_pc[t] = "idle"
    /\ \E op \in ForeignOps : g_op' = [g_op EXCEPT ![t] = op]
    /\ g_pc' = [g_pc EXCEPT ![t] = "waiting"]
    /\ UNCHANGED <<g_owner, g_open, g_kc, g_store, g_mine, notgatev>>

\* self.container.lock() is granted
GateLock(t) ==
    /\ g_pc[t] = "waiting" /\ g_owner = "none"
    /\ g_owner' = t
    /\ g_pc' = [g_pc EXCEPT ![t] = "locked"]
    /\ g_mine' = [g_mine EXCEPT ![t] = GateState]
    /\ UNCHANGED <<g_op, g_open, g_kc, g_store, notgatev>>

\* c.backend()?, has_seed, open_with_credentials()?, and set_keychain(Some)
\* in a swap call; a refusal returns and drops the guard
GateOpen(t) ==
    /\ g_pc[t] = "locked"
    /\ \E c \in BOOLEAN, sd \in BOOLEAN, io \in {"ok", "err"} :
          IF Precheck(c, sd) # "ok" \/ io = "err"
            THEN /\ g_pc' = [g_pc EXCEPT ![t] = "idle"]
                 /\ g_owner' = "none"
                 /\ UNCHANGED <<g_open, g_kc, g_mine>>
            ELSE /\ g_pc' = [g_pc EXCEPT ![t] = "body"]
                 /\ g_open' = TRUE
                 /\ g_kc' = (g_kc \/ IsSwapOp(g_op[t]))
                 /\ g_mine' = [g_mine EXCEPT ![t] = <<g_open', g_kc', g_store>>]
                 /\ UNCHANGED g_owner
    /\ UNCHANGED <<g_op, g_store, notgatev>>

\* the body f(&mut c): it may write to the store; a swap body may panic,
\* which unwinds through the guard
GateBody(t) ==
    /\ g_pc[t] = "body"
    /\ \E body \in {"ok", "ok_wrote", "err", "err_wrote", "panic"} :
          /\ body = "panic" => IsSwapOp(g_op[t])
          /\ body \in {"ok_wrote", "err_wrote"} => g_store < MaxWrites
          /\ g_store' = IF body \in {"ok_wrote", "err_wrote"} THEN g_store + 1
                        ELSE g_store
          /\ g_mine' = [g_mine EXCEPT ![t] = <<g_open, g_kc, g_store'>>]
          /\ IF body = "panic"
               THEN g_pc' = [g_pc EXCEPT ![t] = "idle"] /\ g_owner' = "none"
               ELSE /\ g_pc' = [g_pc EXCEPT ![t] = "closing"]
                    /\ g_owner' = IF GuardDroppedAfter = "body" THEN "none"
                                  ELSE g_owner
    /\ UNCHANGED <<g_op, g_open, g_kc, notgatev>>

\* c.backend() and, when it is there, close(); set_keychain(None) in a swap
\* call; res is returned and the guard dropped
GateClose(t) ==
    /\ g_pc[t] = "closing"
    /\ \E bk \in {"ok", "err"}, cl \in {"ok", "err"} :
          /\ g_open' = IF bk = "ok" /\ cl = "ok" THEN FALSE ELSE g_open
          /\ g_kc' = IF IsSwapOp(g_op[t]) THEN FALSE ELSE g_kc
    /\ g_mine' = [g_mine EXCEPT ![t] = <<g_open', g_kc', g_store>>]
    /\ g_pc' = [g_pc EXCEPT ![t] = "idle"]
    /\ g_owner' = IF g_owner = t THEN "none" ELSE g_owner
    /\ UNCHANGED <<g_op, g_store, notgatev>>

GateNext ==
    \E t \in Threads :
        \/ GateCall(t)
        \/ GateLock(t)
        \/ GateOpen(t)
        \/ GateBody(t)
        \/ GateClose(t)

\* ================================================== the order of the locks
notorderv == <<brokerv, ctlv, muxv, swapv, walletv, backoffv, lockv, keepv, gatev>>

Locks == {"meta", "handler", "container", "handle"}

\* connection_meta_data, the Controller, the Container, GrinboxBroker.inner
Rank(l) ==
    CASE l = "meta" -> 1
      [] l = "handler" -> 2
      [] l = "container" -> 3
      [] l = "handle" -> 4

Acq(l) == [k |-> "acq", l |-> l]
Rel(l) == [k |-> "rel", l |-> l]
Sleeping == [k |-> "sleep", l |-> "none"]

\* is_running(), stop(), the factory, the is_stopped test, the final clear
HandleProgram == <<Acq("handle"), Rel("handle")>>

\* post(): is_running(), then the send under a second guard
PostProgram == HandleProgram \o HandleProgram

\* Listener::publish_slate and publish_swap_message: a post of the publisher
ListenerPublish == PostProgram

\* mutation: the adapter asks the broker first and locks the container inside
AdapterProgramHandleFirst ==
    <<Acq("handle"), Acq("container"), Rel("container"), Rel("handle")>>
\* send_tx_async: self.container.lock(), then c.listener(..)?.publish_slate(..)
AdapterProgram == <<Acq("container")>> \o ListenerPublish \o <<Rel("container")>>

\* open_and_close / swap_open_and_close around a body
ForeignProgram(body) == <<Acq("container")>> \o body \o <<Rel("container")>>

ConnOps == {"connect", "on_open", "on_slate", "on_swap_message", "loop_stopped",
            "loop_backoff"}
CallerOps == {"post", "stop", "is_running", "send_tx_async", "receive_tx",
              "receive_swap_message"}

\* the lock steps of each operation
ProgramOf(op) ==
    CASE op = "connect" -> HandleProgram
      [] op = "on_open" ->
            <<Acq("meta"), Acq("handler"), Rel("handler"), Rel("meta")>>
      [] op = "on_slate" ->
            <<Acq("handler")>> \o ForeignProgram(<<>>) \o PostProgram
            \o <<Rel("handler")>>
      [] op = "on_swap_message" ->
            <<Acq("handler")>> \o ForeignProgram(ListenerPublish)
            \o <<Rel("handler")>>
      [] op = "loop_stopped" ->
            HandleProgram \o <<Acq("handler"), Rel("handler")>> \o HandleProgram
      [] op = "loop_backoff" ->
            HandleProgram \o <<Acq("meta"), Acq("handler"), Rel("handler"),
                               Sleeping, Rel("meta")>>
      [] op = "post" -> PostProgram
      [] op \in {"stop", "is_running"} -> HandleProgram
      [] op = "send_tx_async" -> AdapterProgram
      [] op = "receive_tx" -> ForeignProgram(<<>>)
      [] op = "receive_swap_message" -> ForeignProgram(ListenerPublish)

\* what the subscribe thread does next: connection before, operation, after
ConnSteps ==
    {<<"down", "connect", "made">>,
     <<"down", "loop_backoff", "down">>, <<"down", "loop_stopped", "down">>,
     <<"made", "on_open", "open">>,
     <<"made", "loop_backoff", "down">>, <<"made", "loop_stopped", "down">>,
     <<"open", "on_slate", "open">>, <<"open", "on_swap_message", "open">>,
     <<"open", "loop_backoff", "down">>, <<"open", "loop_stopped", "down">>}

OrderInit ==
    /\ o_owner = [l \in Locks |-> "none"]
    /\ o_held = [t \in Threads |-> <<>>]
    /\ o_todo = [t \in Threads |-> <<>>]
    /\ o_op = [t \in Threads |-> "none"]
    /\ o_conn = "down"

\* a thread begins its next operation
OrderStart(t) ==
    /\ o_todo[t] = <<>>
    /\ IF t = "conn"
         THEN \E st \in ConnSteps :
                 /\ st[1] = o_conn
                 /\ o_op' = [o_op EXCEPT ![t] = st[2]]
                 /\ o_conn' = st[3]
         ELSE /\ \E op \in CallerOps : o_op' = [o_op EXCEPT ![t] = op]
              /\ o_conn' = o_conn
    /\ o_todo' = [o_todo EXCEPT ![t] = ProgramOf(o_op'[t])]
    /\ UNCHANGED <<o_owner, o_held, notorderv>>

\* lock(): granted when nobody holds the lock
OrderAcquire(t) ==
    /\ o_todo[t] # <<>> /\ Head(o_todo[t]).k = "acq"
    /\ LET l == Head(o_todo[t]).l
       IN  /\ o_owner[l] = "none"
           /\ o_owner' = [o_owner EXCEPT ![l] = t]
           /\ o_held' = [o_held EXCEPT ![t] = Append(@, l)]
    /\ o_todo' = [o_todo EXCEPT ![t] = Tail(@)]
    /\ UNCHANGED <<o_op, o_conn, notorderv>>

\* a guard is dropped: the one taken last
OrderRelease(t) ==
    /\ o_todo[t] # <<>> /\ Head(o_todo[t]).k = "rel"
    /\ LET l == Head(o_todo[t]).l
       IN  /\ o_owner' = [o_owner EXCEPT ![l] = IF @ = t THEN "none" ELSE @]
           /\ o_held' = [o_held EXCEPT ![t] = SelectSeq(@, LAMBDA x : x # l)]
    /\ o_todo' = [o_todo EXCEPT ![t] = Tail(@)]
    /\ UNCHANGED <<o_op, o_conn, notorderv>>

\* thread::sleep(duration) returns
OrderSleep(t) ==
    /\ o_todo[t] # <<>> /\ Head(o_todo[t]).k = "sleep"
    /\ o_todo' = [o_todo EXCEPT ![t] = Tail(@)]
    /\ UNCHANGED <<o_owner, o_held, o_op, o_conn, notorderv>>

OrderNext ==
    \E t \in Threads :
        \/ OrderStart(t)
        \/ OrderAcquire(t)
        \/ OrderRelease(t)
        \/ OrderSleep(t)

Init ==
    /\ BrokerInit
    /\ CtlInit
    /\ MuxInit
    /\ SwapInit
    /\ WalletInit
    /\ BackoffInit
    /\ LockInit
    /\ KeepInit
    /\ GateInit
    /\ OrderInit

\* ------------------------------------------------------------------ spec
Next ==
    \/ ConnectEarlyFail
    \/ ConnectFactory
    \/ OnOpen
    \/ ConnClose
    \/ Exit
    \/ EnterBackoff
    \/ Wake
    \/ OnMessage
    \/ Stop
    \/ PostCheck
    \/ PostSend

Spec == Init /\ [][Next]_vars

SpecCtl == Init /\ [][CtlNext]_vars

SpecMux == Init /\ [][MuxNext]_vars

InitStored ==
    /\ BrokerInit
    /\ CtlInit
    /\ MuxInit
    /\ SwapInitStored
    /\ WalletInit
    /\ BackoffInit
    /\ LockInit
    /\ KeepInit
    /\ GateInit
    /\ OrderInit

SpecSwap == InitStored /\ [][SwapNext]_vars

SpecWallet == Init /\ [][WalletNext]_vars

InitAnyBuild ==
    /\ BrokerInit
    /\ CtlInit
    /\ MuxInit
    /\ SwapInit
    /\ WalletInit
    /\ BackoffInitAnyBuild
    /\ LockInit
    /\ KeepInit
    /\ GateInit
    /\ OrderInit

SpecBackoff == InitAnyBuild /\ [][BackoffNext]_vars

SpecLock == Init /\ [][LockNext]_vars

SpecKeep == Init /\ [][KeepNext]_vars

SpecGate == Init /\ [][GateNext]_vars

SpecOrder == Init /\ [][OrderNext]_vars

\* ---------------------------------------------------------------- claims
NumSubscribes == Cardinality({i \in 1..Len(wire) : wire[i].type = "Subscribe"})

\* C1: once stop() has been called with the socket open, a connection attempt
\* in progress or the loop asleep in Backoff, the loop starts no further
\* connection attempt and the handle stays cleared.
C1_StopEndsCycle ==
    [][(stop_called /\ stopped_at \in {"connecting", "open", "backoff"}) =>
            (~inner' /\ ~(pc = "start" /\ pc' # "start"))]_vars

\* C2 as stated: when the loop has exited after stop(), on_close was reported
\* exactly once and with reason Normal, whatever connect() returned.
C2_StopClosesNormal ==
    (pc = "done" /\ stop_called) => (n_on_close = 1 /\ close_reason = "Normal")

\* C2 amended: when the loop has exited after stop(), on_close was reported
\* exactly once, with reason Normal if the last connect() returned Ok and
\* Abnormal if it returned an error.
C2_CloseReasonFollowsResult ==
    (pc = "done" /\ stop_called) =>
        /\ n_on_close = 1
        /\ result = "ok" => close_reason = "Normal"
        /\ result = "err" => close_reason = "Abnormal"

C2_Witness ==
    pc = "done" /\ stop_called /\ result = "err" /\ close_reason = "Abnormal"

\* C3: the loop exits, and on_close is reported, only after stop() was called.
C3_ExitOnlyAfterStop ==
    (pc = "done" \/ n_on_close > 0) => stop_called

\* C4: on_dropped is reported exactly once per disconnect: never before the
\* first open, once on entering Backoff after an opened connection, and not
\* again on the further failed retries of that outage.
C4_DroppedOncePerDisconnect ==
    /\ drops <= 1
    /\ ~connected_at_least_once => drops = 0
    /\ (pc = "backoff" /\ connected_at_least_once) => drops = 1
    /\ (act = "EnterBackoff" /\ retries > 0) => cb = "none"

C4_Witness ==
    pc = "backoff" /\ connected_at_least_once /\ retries >= 2 /\ drops = 1

\* C5: on_open is reported for the first open and only for it; every later
\* open is reported as on_reestablished, which is reported only with
\* retries > 0 and connected_at_least_once.
C5_OpenThenReestablished ==
    /\ [](n_on_open <= 1 /\ (connected_at_least_once <=> n_on_open = 1))
    /\ [][act' = "OnOpen" =>
            IF connected_at_least_once
              THEN cb' = "on_reestablished" /\ retries > 0
              ELSE cb' = "on_open"]_vars
    /\ [][cb' = "on_reestablished" =>
            act' = "OnOpen" /\ retries > 0 /\ connected_at_least_once]_vars

C5_Witness ==
    act = "OnOpen" /\ cb = "on_reestablished" /\ n_on_open = 1

ExpectedSleeps == <<1, 2, 4, 8, 16, 32, 32>>

\* C6: the sleeps of one outage are 1,2,4,8,16,32,32,.. seconds, one per
\* backoff cycle, retries counting the cycles; an open resets retries, so the
\* next outage starts again at 1 second.
C6_BackoffSequence ==
    /\ \A i \in 1..Len(sleeps) :
          sleeps[i] = IF i <= Len(ExpectedSleeps) THEN ExpectedSleeps[i] ELSE 32
    /\ Len(sleeps) = retries + (IF pc = "backoff" THEN 1 ELSE 0)

C6_Witness ==
    sleeps = ExpectedSleeps /\ connected_at_least_once

\* C7 as stated: a post() that starts while no socket is open (no handle
\* stored, or the loop in Backoff) fails with ClosedListener and sends nothing.
C7_PostClosedWhenNoSocket ==
    [][(act' = "PostCheck" /\ (~inner \/ pc = "backoff")) =>
            (post_res' = "ClosedListener" /\ wire' = wire)]_vars

\* C7 amended: a post() that starts while no handle is stored fails with
\* ClosedListener and sends nothing; in Backoff the handle may still be
\* stored, and a send attempted then fails with GenericError, sending nothing.
C7_PostClosedWhenNoHandle ==
    /\ [][(act' = "PostCheck" /\ ~inner) =>
            (post_res' = "ClosedListener" /\ ppc' = "idle" /\ wire' = wire)]_vars
    /\ [][(act' = "PostSend" /\ pc = "backoff") =>
            (post_res' = "GenericError" /\ wire' = wire)]_vars

C7_Witness ==
    act = "PostCheck" /\ stop_called /\ ~inner /\ post_res = "ClosedListener"

\* C8 as stated: the handle is stored exactly while a socket is open.
C8_HandleIffSocketOpen ==
    inner <=> pc = "open"

\* C8 amended: the handle is set when a connection attempt creates its
\* sender, is cleared only by stop() (and is absent at loop exit), and is left
\* alone when a connection ends, so it is stored on entering Backoff.
C8_HandleLifetime ==
    [][/\ inner' # inner =>
            \/ inner' /\ act' = "ConnectFactory"
            \/ ~inner' /\ act' = "Stop"
       /\ act' = "ConnectFactory" => inner'
       /\ act' \in {"Stop", "Exit"} => ~inner'
       /\ act' = "EnterBackoff" => inner']_vars

C8_Witness ==
    pc = "backoff" /\ act = "EnterBackoff" /\ inner /\ connected_at_least_once

\* C9 as stated: every received Challenge is answered by exactly one
\* Subscribe with the address public key and a signature over its nonce.
C9_EveryChallengeAnswered ==
    [][(act' = "OnMessage" /\ frame'.type = "Challenge") =>
            wire' = Append(wire, [type |-> "Subscribe", address |-> PublicKey,
                                  signature |-> Sign(frame'.str, SecretKey)])]_vars

\* C9 amended: no Subscribe is sent before a Challenge was received on the
\* connection, and a received Challenge is answered by one Subscribe with the
\* address public key and a signature over its nonce when the handler
\* succeeds, and by none when signing or sending fails.
C9_SubscribeAnswersChallenge ==
    /\ [](NumSubscribes <= n_chal)
    /\ [][(act' = "OnMessage" /\ frame'.type = "Challenge") =>
            IF handler_res' = "ok"
              THEN wire' = Append(wire, [type |-> "Subscribe", address |-> PublicKey,
                                         signature |-> Sign(frame'.str, SecretKey)])
              ELSE wire' = wire]_vars

C9_Witness ==
    /\ act = "OnMessage" /\ frame.type = "Challenge" /\ handler_res = "ok"
    /\ n_chal = 2 /\ NumSubscribes = 2

\* C10: an unparsable frame, or a Slate whose decryption or signature check
\* fails, is dropped: no controller callback, the handler returns Ok, the
\* connection stays open and the broker state is unchanged.
C10_BadFrameDropped ==
    [][(/\ act' = "OnMessage"
        /\ \/ frame'.type = "garbage"
           \/ (frame'.type = "Slate" /\ frame'.check # "ok")) =>
            /\ cb' = "none"
            /\ handler_res' = "ok"
            /\ pc' = "open"
            /\ UNCHANGED <<inner, result, retries, connected_at_least_once,
                           challenge, wire>>]_vars

C10_Witness ==
    /\ act = "OnMessage" /\ frame.type = "Slate" /\ frame.check = "bad_signature"
    /\ cb = "none" /\ pc = "open"

\* ----------------------------------------------------- controller claims
CallsOf(op) == {i \in 1..Len(c_calls) : c_calls[i].op = op}

\* C11: a slate with fewer participant entries than num_participants and at
\* least one input, accepted by receive_tx: receive_tx is called once, then
\* one post to `from` of the updated slate in the version received, and no
\* finalize.
C11_ReceiveThenRepublish ==
    (/\ c_pc = "returned"
     /\ c_in.slate.pd_len < c_in.slate.num_participants
     /\ c_in.slate.n_inputs >= 1
     /\ c_res # "err") =>
        /\ Len(c_calls) = 2
        /\ c_calls[1] = [op |-> "receive_tx", address |-> c_in.from]
        /\ c_calls[2].op = "post"
        /\ c_calls[2].to = c_in.from
        /\ c_calls[2].payload.version = c_in.version
        /\ c_calls[2].payload.slate = [c_in.slate EXCEPT !.pd_len = @ + 1]
        /\ CallsOf("finalize_tx") = {}

C11_Witness ==
    /\ c_pc = "returned" /\ Len(c_calls) = 2 /\ c_calls[2].op = "post"
    /\ c_in.slate.num_participants = 2 /\ c_in.slate.pd_len = 1
    /\ c_in.slate.n_inputs = 1 /\ c_in.version = 1 /\ c_in.from = "peerB"

\* C12: a slate whose participant entries equal num_participants: finalize
\* is called once, with the proof of the event, and nothing else is called.
C12_FinalizeOnly ==
    (/\ c_pc = "returned"
     /\ c_in.slate.pd_len = c_in.slate.num_participants) =>
        c_calls = <<[op |-> "finalize_tx", proof |-> c_in.proof]>>

C12_Witness ==
    /\ c_pc = "returned" /\ c_in.slate.pd_len = 2 /\ c_in.slate.num_participants = 2
    /\ c_in.proof = "proof" /\ c_res = "ok_true" /\ Len(c_calls) = 1

\* C13: a not fully signed slate without inputs causes no call at all: no
\* receive_tx, no finalize, no post.
C13_InvoiceNoAction ==
    (/\ c_pc = "returned"
     /\ c_in.slate.pd_len < c_in.slate.num_participants
     /\ c_in.slate.n_inputs = 0) => c_calls = <<>>

\* C14: when receive_tx or finalize fails, on_slate returns having made that
\* one call only: nothing is posted and nothing is called again.
C14_ErrorDropsEvent ==
    /\ (c_res = "err" => c_pc = "returned")
    /\ (c_pc = "returned" /\ c_res = "err") =>
          /\ Len(c_calls) = 1
          /\ c_calls[1].op \in {"receive_tx", "finalize_tx"}
          /\ CallsOf("post") = {}

C14_Witness ==
    /\ c_pc = "returned" /\ c_res = "err" /\ Len(c_calls) = 1
    /\ c_calls[1].op = "receive_tx"

\* ---------------------------------------------------- multiplexer claims
\* C15 as stated: an operation for a currency without implementation fails
\* with ApiNotFound and installs no keychain, whether or not the
\* multiplexer holds a keychain.
C15_ApiNotFoundAlways ==
    (m_last.currency # "none" /\ ~m_last.registered) =>
        m_last.res = "ApiNotFound" /\ m_held = {}

\* C15 amended: an operation for a currency without implementation fails
\* with ApiNotFound when the multiplexer holds a keychain and with
\* MissingKeychain when it holds none; in both cases no implementation
\* receives a keychain.
C15_MissingKeychainFirst ==
    (m_last.currency # "none" /\ ~m_last.registered) =>
        /\ m_last.res = IF m_last.keychain THEN "ApiNotFound" ELSE "MissingKeychain"
        /\ m_held = {}
        /\ \A c \in Currencies : ~m_api_kc[c]

C15_Witness ==
    /\ m_last.currency = "eth" /\ ~m_last.registered /\ m_last.keychain
    /\ m_last.res = "ApiNotFound" /\ "btc" \in m_apis

\* C16: between multiplexed calls no implementation holds a keychain, also
\* after a call that failed; during a call only the implementation of the
\* swap's currency held it.
C16_KeychainScoped ==
    /\ \A c \in Currencies : ~m_api_kc[c]
    /\ m_held \subseteq {m_last.currency}
    /\ m_held # {} => m_last.registered /\ m_last.keychain

C16_Witness ==
    /\ m_held = {"btc"} /\ m_last.res = "err" /\ ~m_api_kc["btc"]
    /\ "eth" \in m_apis

\* ------------------------------------------------------ swap loop claims
\* C17: when the action the loop looks at is a waiting one, the loop is left
\* at once and update_swap returns that action unchanged: no further
\* iteration, nothing published or broadcast, no batch opened, the store
\* untouched.
C17_WaitingReturnedUnchanged ==
    [][(u_why = "running" /\ IsWaiting(action)) =>
          /\ u_why' = "waiting"
          /\ u_ret' = action
          /\ action' = action
          /\ u_iter' = u_iter
          /\ u_eff' = u_eff
          /\ db' = db
          /\ r_res' # "err"]_vars

C17_Witness ==
    /\ u_why = "waiting" /\ u_first = "DepositSecondary"
    /\ u_ret = "DepositSecondary" /\ u_iter = 0 /\ u_eff = {} /\ db = r_db0

\* the loop went round on Action::Complete: its batch was committed
CompleteCommitted == Looping /\ action = "Complete" /\ u_iter' = u_iter + 1

\* C18: a completed Complete step commits one batch that, for a buyer, saves
\* the redeem output (one new output record when the Context was still
\* stored) and deletes the Context, and, for a seller, only deletes the
\* Context; nothing else in the store changes.
C18_CompleteBatch ==
    [][CompleteCommitted =>
          /\ db'.ctx = "none"
          /\ db'.outputs = IF swap.seller THEN db.outputs
                           ELSE db.outputs \cup {RedeemOutputOf(r_msg.id)}
          /\ (~swap.seller /\ db.ctx # "none") =>
                Cardinality(db'.outputs \ db.outputs) = 1
          /\ db' = [db EXCEPT !.ctx = db'.ctx, !.outputs = db'.outputs]]_vars

C18_Witness ==
    /\ "commit" \in u_eff /\ ~swap.seller
    /\ db.outputs = {RedeemOutputOf("A")} /\ db.ctx = "none"
    /\ r_db0.outputs = {} /\ r_db0.ctx = "buyer"

\* the ways a step of the loop fails and leaves it
StepFailures ==
    {"message_failed", "no_address", "no_listener", "publish_failed",
     "message_sent_failed", "publish_tx_failed", "completed_failed",
     "buyer_output_failed", "error"}

\* C19: update_swap always ends, by returning a waiting action or after a
\* failure, within a bounded number of iterations, also for Cancel and
\* Refund and for an engine that keeps answering non-waiting actions.
C19_LoopTerminates ==
    /\ u_why \notin {"none", "running"} =>
          (IsWaiting(u_ret) \/ u_ret = "Err" \/ u_why \in StepFailures)
    /\ ~(u_why = "running" /\ u_iter = MaxIter /\ ~IsWaiting(action))

\* C20: when receive_swap_message returns an error the stored swap, Context,
\* outputs and offers are what they were when it was called.
C20_ErrorLeavesStoreUnchanged ==
    (r_pc = "returned" /\ r_res = "err") => db = r_db0

\* ------------------------------------------------ broker claims, continued
\* C25: whatever stop() does in between, a post() that reaches its send ends
\* in one of three ways: one PostSlate frame is sent on the stored handle;
\* ClosedListener when no handle is stored at the time of sending (so also
\* when stop() came after the running check); GenericError only when a
\* handle is stored and the transport rejected the send.
C25_PostOutcomes ==
    [][act' = "PostSend" =>
          /\ post_res' \in {"Ok", "ClosedListener", "GenericError"}
          /\ post_res' = "Ok" => (inner /\ wire' = Append(wire, PostSlateRequest))
          /\ ~inner => post_res' = "ClosedListener"
          /\ post_res' = "GenericError" => inner]_vars

\* C26: the subscribe thread holds the lock of the handle only in its three
\* one-step sections (store, test, clear) and a caller only in its own
\* one-step sections; during the backoff sleep the subscribe thread does not
\* hold it, so a caller's lock request is not kept waiting by the sleep.
C26_HandleLockNotHeldInSleep ==
    /\ k_owner = "loop" <=> k_pc \in {"factory_locked", "check_locked", "final_locked"}
    /\ k_owner = "caller" <=> k_call \in {"post_check", "is_running", "post_send", "stop"}
    /\ k_pc = "sleeping" => k_owner # "loop"

C26_Witness ==
    /\ k_pc = "sleeping" /\ k_meta = "loop" /\ k_served = 2
    /\ k_owner = "caller" /\ k_call = "stop"

\* C27 (as stated): on_open arms one keepalive timer, every keepalive firing
\* sends one ping and leaves exactly one timer pending 30 s ahead, and a
\* timeout with another token is an error that sends no ping.
C27_EveryFiringPingsAndRearms ==
    [][t_last' # t_last =>
          /\ t_last'.ev = "open" => t_pending' = 1
          /\ (t_last'.ev = "timeout" /\ t_last'.token = KEEPALIVE_TOKEN) =>
                (t_pings' = t_pings + 1 /\ t_pending' = 1
                   /\ t_delay' = KEEPALIVE_INTERVAL_MS)
          /\ (t_last'.ev = "timeout" /\ t_last'.token # KEEPALIVE_TOKEN) =>
                (t_last'.res = "err" /\ t_pings' = t_pings)]_vars

\* C27 (amended): arming at open and, after an accepted ping, at each
\* keepalive firing leaves exactly one timer pending 30 s ahead; a rejected
\* ping or arming is returned as the error and leaves no timer pending; never
\* more than one timer is pending; another token is an error without a ping.
C27_KeepaliveWhileAccepted ==
    [][t_last' # t_last =>
          /\ t_pending' <= 1
          /\ t_last'.ev = "open" =>
                IF t_last'.res = "ok"
                  THEN t_pending' = 1 /\ t_delay' = KEEPALIVE_INTERVAL_MS
                  ELSE t_pending' = 0
          /\ (t_last'.ev = "timeout" /\ t_last'.token = KEEPALIVE_TOKEN) =>
                /\ t_pings' = IF t_last'.ping = "ok" THEN t_pings + 1 ELSE t_pings
                /\ IF t_last'.res = "ok"
                     THEN /\ t_last'.ping = "ok"
                          /\ t_pending' = 1 /\ t_delay' = KEEPALIVE_INTERVAL_MS
                     ELSE t_pending' = 0 /\ t_delay' = 0
          /\ (t_last'.ev = "timeout" /\ t_last'.token # KEEPALIVE_TOKEN) =>
                /\ t_last'.res = "err" /\ t_last'.ping = "none"
                /\ t_pings' = t_pings /\ t_pending' = t_pending]_vars

C27_Witness ==
    /\ t_open /\ t_pings = 2 /\ t_pending = 1
    /\ t_last.ev = "timeout" /\ t_last.token = KEEPALIVE_TOKEN /\ t_last.res = "ok"

\* ------------------------------------------------------ Foreign API claims
\* C21: a Foreign call (receive_tx, receive_swap_message) on a backend that
\* is not connected fails with NoBackend, and on a connected backend without
\* seed with NoSeed, and in both cases the wallet was not opened, no
\* keychain was given to the multiplexer, the body did not run and stored
\* nothing, and the wallet and the multiplexer are as they were.
C21_LockedWalletNoEffect ==
    [][(w_last' # w_last /\ (~w_connected \/ ~w_seed)) =>
          /\ w_last'.res = IF ~w_connected THEN "NoBackend" ELSE "NoSeed"
          /\ ~w_last'.opened /\ ~w_last'.installed
          /\ ~w_last'.body /\ ~w_last'.wrote /\ w_last'.closes = 0
          /\ w_open' = w_open /\ m_keychain' = m_keychain]_vars

C21_Witness ==
    /\ w_last.op = "receive_swap_message" /\ w_last.res = "NoSeed"
    /\ w_last.connected /\ ~w_last.seed /\ ~w_last.body
    /\ ~w_open /\ ~m_keychain

\* ------------------------------------------------------ swap store claims
\* C22: in every stored state a stored swap that is not stored as completed
\* has its Context stored, and a Context leaves the store only in a state
\* where the swap is stored as completed.
C22_ActiveSwapHasContext ==
    db.swap.stored => (db.swap.done \/ db.ctx # "none")

\* a receive_swap_message for an Offer has just returned
OfferReturned ==
    r_pc \in {"idle", "returned"} /\ r_pc' = "returned" /\ r_msg'.kind = "offer"

\* C23: a stored offer gets the idx no offer had before, greater than every
\* idx mapped so far, and its mapping and the offer appear in the store
\* together; an Offer whose id is stored as swap or as offer returns an error
\* and leaves the store, the idx counter included, as it was.
C23_OfferIdx ==
    [][OfferReturned =>
          /\ SwapExists(db, r_msg'.id) => (r_res' = "err" /\ db' = db)
          /\ r_res' = "err" => db' = db
          /\ r_res' = "ok" =>
                \E idx \in 0..Cardinality(Ids) :
                   /\ \A m \in db.mapping : m[1] < idx
                   /\ \A o \in db.offers : o.idx < idx
                   /\ db'.offers = db.offers \cup {[id |-> r_msg'.id, idx |-> idx]}
                   /\ db'.mapping = db.mapping \cup {<<idx, r_msg'.id>>}
                   /\ db'.next_idx > idx
                   /\ db' = [db EXCEPT !.offers = db'.offers,
                                       !.mapping = db'.mapping,
                                       !.next_idx = db'.next_idx]]_vars

C23_Witness ==
    /\ r_pc = "returned" /\ r_msg = [id |-> "B", kind |-> "offer"] /\ r_res = "err"
    /\ db.offers = {[id |-> "A", idx |-> 0], [id |-> "B", idx |-> 1]}
    /\ db.mapping = {<<0, "A">>, <<1, "B">>}
    /\ db = r_db0

\* --------------------------------------------------- long outage claims
\* C24: whatever value retries has reached in an outage, the loop does not
\* abort in the power computation, and the sleep it computes lies between 1
\* and 32 seconds and is not shorter than the sleep before it.
C24_BackoffNeverOverflows ==
    /\ b_pc # "aborted"
    /\ b_retries > 0 => (1 <= b_secs /\ b_secs <= BackoffCapSecs /\ b_prev <= b_secs)

\* ------------------------------------------------ action loop, continued
\* a round of the loop was run for the action `a`
RoundOf(a) == Looping /\ action \in a /\ <<u_why, u_iter>>' # <<u_why, u_iter>>

SendFailures == {"message_failed", "no_address", "no_listener", "publish_failed"}

\* C28: in a SendMessage round message_sent is called only right after a
\* publish_swap_message that succeeded; when the message cannot be built,
\* there is no peer address or listener, or the publish fails, the loop is
\* left without an error, update_swap returns SendMessage, message_sent is
\* not called and the swap is as it was.
C28_MessageSentAfterPublish ==
    [][RoundOf({"SendMessage"}) =>
          /\ \A i \in DOMAIN u_calls' :
                u_calls'[i].f = "message_sent" =>
                   (i > 1 /\ u_calls'[i - 1] = Call("publish_swap_message", TRUE))
          /\ u_why' \in SendFailures =>
                /\ u_ret' = "SendMessage"
                /\ r_pc' \in {"receive", "store"} /\ r_res' = r_res
                /\ \A i \in DOMAIN u_calls' : u_calls'[i].f # "message_sent"
                /\ swap' = swap /\ u_eff' = u_eff /\ db' = db]_vars

C28_Witness ==
    /\ u_why = "publish_failed" /\ u_ret = "SendMessage"
    /\ u_iter > 0 /\ "message" \in u_eff
    /\ u_calls[Len(u_calls)] = Call("publish_swap_message", FALSE)

\* C29: a SendMessage round whose channel is not supported (an address of
\* another type than the relay's, or no listener) leaves the loop and
\* update_swap returns SendMessage normally, with nothing published.
C29_UnsupportedChannelReturns ==
    [][(RoundOf({"SendMessage"})
          /\ u_why' \in {"unsupported_channel", "no_listener"}) =>
          /\ u_ret' = "SendMessage"
          /\ r_res' # "panic"
          /\ u_eff' = u_eff]_vars

\* C30: a PublishTx or PublishTxSecondary round makes its publish call
\* once; when it fails the loop is left and the failure is the error result
\* of update_swap and of its caller, when it succeeds the loop goes on with
\* the returned action.
C30_PublishFailurePropagates ==
    [][RoundOf({"PublishTx", "PublishTxSecondary"}) =>
          /\ Len(u_calls') = 1
          /\ IF u_calls'[1].ok
               THEN r_pc' = r_pc /\ u_iter' = u_iter + 1
               ELSE u_ret' = "Err" /\ r_res' = "err" /\ r_pc' = "returned"]_vars

\* ------------------------------------------------ persistence of a swap
\* C31: when receive_swap_message returns, with success or with an error,
\* after a round of the action loop has advanced the swap (message_sent,
\* a broadcast or the completion answered with the next action), the swap
\* in the store is the advanced swap.
C31_AdvancedSwapStored ==
    (r_pc = "returned" /\ r_res \in {"ok", "err"} /\ u_iter > 0) => ~swap.dirty

\* ------------------------------------------------ the container lock
\* a thread is between taking the container lock and returning
InCall(t) == g_pc[t] \in {"locked", "body", "closing"}

\* C32: a thread inside a Foreign call holds the container lock from before
\* the wallet is opened until it has closed it and returns, so no two calls
\* are inside at once, and the wallet's open state, the multiplexer's
\* keychain and the stored state a call finds at any of its steps are those
\* it found or left at its step before.
C32_CallsDoNotInterleave ==
    /\ \A t \in Threads : InCall(t) => (g_owner = t /\ g_mine[t] = GateState)
    /\ \A t \in Threads, u \in Threads : (InCall(t) /\ InCall(u)) => t = u

C32_Witness ==
    /\ g_pc["conn"] = "closing" /\ g_op["conn"] = "receive_swap_message"
    /\ g_pc["caller"] = "waiting" /\ g_op["caller"] = "receive_tx"
    /\ g_open /\ g_kc /\ g_store = 2

LastCallFailed(f) ==
    u_calls' # <<>> /\ u_calls'[Len(u_calls')] = Call(f, FALSE)

\* C34: when in a buyer's Complete round the buyer context or the redeem
\* output is not there, the loop is left without an error and nothing is
\* committed (no output saved, the Context still stored, the store as it
\* was), while completed() has been called and has succeeded and the swap in
\* memory is the advanced one.
C34_BuyerCompleteNothingCommitted ==
    [][(RoundOf({"Complete"})
          /\ (LastCallFailed("unwrap_buyer") \/ LastCallFailed("redeem_output"))) =>
          /\ ~swap.seller
          /\ u_why' = "buyer_output_failed"
          /\ r_pc' \in {"receive", "store"} /\ r_res' = r_res
          /\ db' = db
          /\ u_calls'[1] = Call("completed", TRUE)
          /\ swap'.dirty /\ swap'.done
          /\ u_ret' = action']_vars

C34_Witness ==
    /\ u_why = "buyer_output_failed" /\ ~swap.seller /\ context = "buyer"
    /\ u_calls[Len(u_calls)] = Call("redeem_output", FALSE)
    /\ db.ctx = "buyer" /\ db.outputs = {} /\ ~db.swap.done
    /\ swap.done /\ swap.dirty

\* ------------------------------------------------ the order of the locks
\* thread t waits for a lock that thread u holds
WaitsFor(t, u) ==
    /\ o_todo[t] # <<>> /\ Head(o_todo[t]).k = "acq"
    /\ o_owner[Head(o_todo[t]).l] = u

\* C35: every thread holds its locks in the order connection metadata,
\* controller handler, wallet container, socket handle, and no thread waits
\* for a lock of its own or for a lock of a thread that waits for it: the
\* connection thread's frame handling and reconnect loop, stop(), post() and
\* the wallet operations of a caller never block each other for good.
C35_LockOrderNoDeadlock ==
    /\ \A t \in Threads : \A i \in 1..Len(o_held[t]), j \in 1..Len(o_held[t]) :
          i < j => Rank(o_held[t][i]) < Rank(o_held[t][j])
    /\ \A t \in Threads : \A u \in Threads : ~(WaitsFor(t, u) /\ WaitsFor(u, t))

C35_Witness ==
    /\ o_op["conn"] = "on_swap_message"
    /\ o_held["conn"] = <<"handler", "container">>
    /\ WaitsFor("conn", "caller")
    /\ o_op["caller"] = "stop"

====
